---- MODULE Spec2Model ----
(***************************************************************************)
(* State-machine model of the EBM training core (src/core/Training.cpp):   *)
(* the training state, the update-generation driver, the update-           *)
(* application driver with its training-set and validation-set passes,     *)
(* and the best-model commit.                                              *)
(*                                                                         *)
(* FractionalDataType values are records: Num(n) is a finite value held    *)
(* as an integer on a fixed grid, NaN is the IEEE not-a-number and         *)
(* Infinity is +infinity.  Model values, scores, regression targets and    *)
(* regression residuals are in whole units; validation metrics are in      *)
(* thousandths.  Classification residuals are exact fractions Rat(n, d).   *)
(***************************************************************************)
EXTENDS Integers, Sequences, FiniteSets, TLC

(* ------------------------------------------------------------------ *)
(* Bounds of the model                                                 *)
(* ------------------------------------------------------------------ *)

\* number of entry-point calls made on one training state
MaxCalls == 3
\* cases of the training set and of the validation set, when non-empty
NumTrainingCases == 5
NumValidationCases == 3
\* bits of one packed storage word (64 in the build; the passes depend on
\* it only through the items per word and the bits per item)
k_cBitsForStorageType == 8
\* states (bins) of the one significant feature
NumFeatureStates == 3
\* dimensions a combination may have (the scratch tensors are allocated at it)
k_cDimensionsMax == 2

(* ------------------------------------------------------------------ *)
(* FractionalDataType                                                  *)
(* ------------------------------------------------------------------ *)

Num(n) == [k |-> "num", v |-> n]
NaN == [k |-> "nan", v |-> 0]
Infinity == [k |-> "inf", v |-> 0]
Rat(n, d) == [k |-> "rat", n |-> n, d |-> d]

IsNaN(a) == a.k = "nan"

\* a + b and a - b on finite values and NaN
FAdd(a, b) == IF IsNaN(a) \/ IsNaN(b) THEN NaN ELSE Num(a.v + b.v)
FSub(a, b) == IF IsNaN(a) \/ IsNaN(b) THEN NaN ELSE Num(a.v - b.v)
FMul(a, b) == IF IsNaN(a) \/ IsNaN(b) THEN NaN ELSE Num(a.v * b.v)

\* a <= b in place of a < b
FLess_OrEqual(a, b) ==
    /\ ~IsNaN(a) /\ ~IsNaN(b)
    /\ \/ a.k = "num" /\ b.k = "inf"
       \/ a.k = "inf" /\ b.k = "inf"
       \/ a.k = "num" /\ b.k = "num" /\ a.v <= b.v

\* a # b in place of a < b
FLess_NotEqual(a, b) ==
    /\ ~IsNaN(a) /\ ~IsNaN(b)
    /\ a # b

\* a < b as IEEE 754 compares: false whenever an operand is NaN
FLess(a, b) ==
    /\ ~IsNaN(a) /\ ~IsNaN(b)
    /\ \/ a.k = "num" /\ b.k = "inf"
       \/ a.k = "num" /\ b.k = "num" /\ a.v < b.v

RECURSIVE SqrtSearch(_, _, _)
SqrtSearch(x, lo, hi) ==
    IF lo >= hi THEN lo
    ELSE LET mid == (lo + hi + 1) \div 2
         IN IF mid * mid <= x THEN SqrtSearch(x, mid, hi)
            ELSE SqrtSearch(x, lo, mid - 1)

\* floor of the square root of a natural number
ISqrt(x) == SqrtSearch(x, 0, IF x > 46340 THEN 46340 ELSE x)

\* 1000 * e^s for an integer s, on the grid
RECURSIVE ExpMilli(_)
ExpMilli(s) ==
    IF s = 0 THEN 1000
    ELSE IF s > 0 THEN LET x == ExpMilli(s - 1)
                       IN (x \div 1000) * 2718 + ((x % 1000) * 2718) \div 1000
    ELSE (ExpMilli(s + 1) * 1000) \div 2718

\* 1000 * ln(x / 1000) for x >= 1, on the grid (linear between powers of e)
RECURSIVE LnMilli(_)
LnMilli(x) ==
    IF x >= 2718 THEN 1000 + LnMilli((x \div 2718) * 1000 + ((x % 2718) * 1000) \div 2718)
    ELSE IF x < 1000 THEN LnMilli((x * 2718) \div 1000 + 1) - 1000
    ELSE ((x - 1000) * 1000) \div 1718

(* ------------------------------------------------------------------ *)
(* EbmStatistics                                                       *)
(* ------------------------------------------------------------------ *)

ComputeRegressionResidualError(value) == value

\* target - sigma(score), with sigma(s) = e^s / (1 + e^s)
ComputeClassificationResidualErrorBinaryclass(trainingPredictionScore, targetData) ==
    IF IsNaN(trainingPredictionScore) THEN NaN
    ELSE LET e == ExpMilli(trainingPredictionScore.v)
         IN Rat(targetData * (1000 + e) - e, 1000 + e)

\* 1[target = iVector] - exp(score) / sumExp
ComputeClassificationResidualErrorMulticlass(sumExp, trainingPredictionScore, targetData, iVector) ==
    IF IsNaN(sumExp) \/ IsNaN(trainingPredictionScore) THEN NaN
    ELSE Rat((IF targetData = iVector THEN sumExp.v ELSE 0)
                 - ExpMilli(trainingPredictionScore.v), sumExp.v)

\* softplus(score) - target * score
ComputeClassificationSingleCaseLogLossBinaryclass(validationPredictionScore, targetData) ==
    IF IsNaN(validationPredictionScore) THEN NaN
    ELSE Num(LnMilli(1000 + ExpMilli(validationPredictionScore.v))
                 - targetData * 1000 * validationPredictionScore.v)

\* log(sumExp) - score of the target class
ComputeClassificationSingleCaseLogLossMulticlass(sumExp, targetScore) ==
    IF IsNaN(sumExp) \/ IsNaN(targetScore) THEN NaN
    ELSE Num(LnMilli(sumExp.v) - 1000 * targetScore.v)

\* exp of a score, as the passes accumulate it into sumExp
FExp(a) == IF IsNaN(a) THEN NaN ELSE Num(ExpMilli(a.v))

(* ------------------------------------------------------------------ *)
(* Sequences of values                                                 *)
(* ------------------------------------------------------------------ *)

Zeros(n) == [i \in 1..n |-> Num(0)]

RECURSIVE Pow2(_)
Pow2(n) == IF n <= 0 THEN 1 ELSE 2 * Pow2(n - 1)

RECURSIVE FSum(_)
FSum(s) == IF Len(s) = 0 THEN Num(0) ELSE FAdd(Head(s), FSum(Tail(s)))

(* ------------------------------------------------------------------ *)
(* Features and feature combinations                                   *)
(* ------------------------------------------------------------------ *)

\* bits needed to hold maxValue
RECURSIVE CountBitsRequiredCore(_)
CountBitsRequiredCore(maxValue) ==
    IF maxValue = 0 THEN 0 ELSE 1 + CountBitsRequiredCore(maxValue \div 2)

GetCountItemsBitPacked(cBits) == k_cBitsForStorageType \div cBits
GetCountBits(cItemsBitPacked) == k_cBitsForStorageType \div cItemsBitPacked

\* 1 for regression and binary classification, the class count otherwise
GetVectorLengthFlatCore(cTargetStates) == IF cTargetStates <= 2 THEN 1 ELSE cTargetStates

RECURSIVE Product(_)
Product(s) == IF Len(s) = 0 THEN 1 ELSE Head(s) * Product(Tail(s))

\* the single-state features kept among the significant ones
SignificantFeatures_NonEmpty(aFeatures, indexes) ==
    SelectSeq(indexes, LAMBDA iFeature : 0 < aFeatures[iFeature].m_cStates)

\* the features of a combination that carry information (more than one state)
SignificantFeatures(aFeatures, indexes) ==
    SelectSeq(indexes, LAMBDA iFeature : 1 < aFeatures[iFeature].m_cStates)

\* One combination as Initialize builds it from its slice of the flat index
\* stream: the entries are the significant features in their original order.
FeatureCombinationAllocate(aFeatures, indexes) ==
    LET entries == SignificantFeatures(aFeatures, indexes)
        cTensorStates == Product([k \in 1..Len(entries) |-> aFeatures[entries[k]].m_cStates])
    IN [m_cFeatures |-> Len(entries),
        m_FeatureCombinationEntry |-> entries,
        cTensorStates |-> cTensorStates,
        m_cItemsPerBitPackDataUnit |->
            IF Len(entries) = 0 THEN 0
            ELSE GetCountItemsBitPacked(CountBitsRequiredCore(cTensorStates - 1))]

\* the combinations, each reading its indexes where the one before stopped
RECURSIVE InitializeFeatureCombinations(_, _, _)
InitializeFeatureCombinations(aFeatures, aFeatureCombinations, featureCombinationIndexes) ==
    IF Len(aFeatureCombinations) = 0 THEN << >>
    ELSE LET cFeaturesInCombination == Head(aFeatureCombinations)
         IN << FeatureCombinationAllocate(
                   aFeatures, SubSeq(featureCombinationIndexes, 1, cFeaturesInCombination)) >>
            \o InitializeFeatureCombinations(
                   aFeatures, Tail(aFeatureCombinations),
                   SubSeq(featureCombinationIndexes, cFeaturesInCombination + 1,
                          Len(featureCombinationIndexes)))

\* values of the dense tensor of a combination
TensorLength(pFeatureCombination, cVectorLength) ==
    pFeatureCombination.cTensorStates * cVectorLength

(* ------------------------------------------------------------------ *)
(* The caller's data (arguments of the initializers), by case number   *)
(* ------------------------------------------------------------------ *)

\* the features: one of NumFeatureStates bins and one of a single bin
Features == << [m_cStates |-> NumFeatureStates], [m_cStates |-> 1] >>

\* the combinations: the intercept (no feature), then one naming both
\* features.  (The source numbers features and combinations from 0.)
FeatureCombinationCounts == << 0, 2 >>
FeatureCombinationIndexes == << 1, 2 >>

\* bin of a feature for a case; cases are numbered from 0
TrainingData(iFeature, iCase) == (iCase + iFeature - 1) % Features[iFeature].m_cStates
ValidationData(iFeature, iCase) == (iCase + iFeature) % Features[iFeature].m_cStates

RegressionTrainingTarget(iCase) == (2 * iCase) % 5
RegressionValidationTarget(iCase) == (3 * iCase + 1) % 5

ClassificationTrainingTarget(iCase, cTargetStates) == iCase % cTargetStates
ClassificationValidationTarget(iCase, cTargetStates) == (iCase + 1) % cTargetStates

\* the initial prediction scores: a null pointer stands for all zeros
PredictionScore(bScoresGiven, iCase, iVector) ==
    IF bScoresGiven THEN (iCase + iVector) % 2 ELSE 0

(* ------------------------------------------------------------------ *)
(* DataSetByFeatureCombination and InitializeResiduals                 *)
(* ------------------------------------------------------------------ *)

\* the cell of a combination's tensor a case falls in: the first feature
\* of the combination varies fastest
RECURSIVE TensorBin(_, _, _, _)
TensorBin(aFeatures, entries, aData, iCase) ==
    IF Len(entries) = 0 THEN 0
    ELSE aData[Head(entries), iCase]
         + aFeatures[Head(entries)].m_cStates * TensorBin(aFeatures, Tail(entries), aData, iCase)

\* the packed words of one combination's column: item j of a word sits at
\* bits [j * B, (j + 1) * B)
PackInputData(cCases, aBins, cItemsPerBitPackDataUnit) ==
    LET cBitsPerItemMax == GetCountBits(cItemsPerBitPackDataUnit)
        cWords == (cCases + cItemsPerBitPackDataUnit - 1) \div cItemsPerBitPackDataUnit
        Item(iWord, j) ==
            LET iCase == iWord * cItemsPerBitPackDataUnit + j
            IN IF iCase < cCases THEN aBins[iCase] * Pow2(cBitsPerItemMax * j) ELSE 0
        RECURSIVE Word(_, _)
        Word(iWord, j) ==
            IF j = cItemsPerBitPackDataUnit THEN 0
            ELSE Item(iWord, j) + Word(iWord, j + 1)
    IN [iWord \in 1..cWords |-> Word(iWord - 1, 0)]

\* residuals of one case from its scores: regression, binary, multiclass
InitializeResiduals(bRegression, cTargetStates, iZeroResidual, target, scores) ==
    IF bRegression THEN << Num(target - scores[1]) >>
    ELSE IF cTargetStates = 2
    THEN << ComputeClassificationResidualErrorBinaryclass(Num(scores[1]), target) >>
    ELSE LET sumExp == FSum([j \in 1..cTargetStates |-> FExp(Num(scores[j]))])
         IN [j \in 1..cTargetStates |->
                IF j - 1 = iZeroResidual THEN Num(0)
                ELSE ComputeClassificationResidualErrorMulticlass(
                         sumExp, Num(scores[j]), target, j - 1)]

RECURSIVE Flatten(_)
Flatten(ss) == IF Len(ss) = 0 THEN << >> ELSE Head(ss) \o Flatten(Tail(ss))

\* the absent data set (a null m_pTrainingSet or m_pValidationSet)
NullDataSet ==
    [m_cCases |-> 0, m_aTargetData |-> << >>, m_aPredictionScores |-> << >>,
     m_aResidualErrors |-> << >>, m_aaInputData |-> << >>]

\* A data set of cCases cases.  Regression keeps residuals only (the
\* residual is the running target minus score); classification keeps
\* targets and scores, and residuals for the training set.
DataSetByFeatureCombination(bAllocateResidualErrors, bRegression, cTargetStates, iZeroResidual, aFeatures, apFeatureCombinations, cCases, aData, aTargets, bScoresGiven) ==
    LET cVectorLength == GetVectorLengthFlatCore(cTargetStates)
        Scores(iCase) == [j \in 1..cVectorLength |-> PredictionScore(bScoresGiven, iCase, j - 1)]
    IN [m_cCases |-> cCases,
        m_aTargetData |-> IF bRegression THEN << >>
                          ELSE [i \in 1..cCases |-> aTargets[i - 1]],
        m_aPredictionScores |->
            IF bRegression THEN << >>
            ELSE Flatten([i \in 1..cCases |->
                     [j \in 1..cVectorLength |-> Num(Scores(i - 1)[j])]]),
        m_aResidualErrors |->
            IF bAllocateResidualErrors
            THEN Flatten([i \in 1..cCases |->
                     InitializeResiduals(bRegression, cTargetStates, iZeroResidual,
                                         aTargets[i - 1], Scores(i - 1))])
            ELSE << >>,
        m_aaInputData |->
            [c \in 1..Len(apFeatureCombinations) |->
                IF apFeatureCombinations[c].m_cFeatures = 0 THEN << >>
                ELSE LET aBins ==
                             [iCase \in 0..(cCases - 1) |->
                                 TensorBin(aFeatures,
                                           apFeatureCombinations[c].m_FeatureCombinationEntry,
                                           aData, iCase)]
                     IN PackInputData(cCases, aBins,
                                      apFeatureCombinations[c].m_cItemsPerBitPackDataUnit)]]

(* ------------------------------------------------------------------ *)
(* SegmentedTensor                                                     *)
(* ------------------------------------------------------------------ *)

\* an expanded tensor of cValues zeros
ExpandedTensor(cDimensions, cValues) ==
    [m_cDimensions |-> cDimensions, m_bExpanded |-> TRUE, m_aValues |-> Zeros(cValues)]

\* current and best model arrays: one expanded zero tensor per combination
InitializeSegmentedTensors(apFeatureCombinations, cVectorLength) ==
    [c \in 1..Len(apFeatureCombinations) |->
        ExpandedTensor(apFeatureCombinations[c].m_cFeatures,
                       TensorLength(apFeatureCombinations[c], cVectorLength))]

\* the values overwritten in place of added
AddExpanded_Overwrite(tensor, aFromValues) ==
    [tensor EXCEPT !.m_aValues = [i \in 1..Len(tensor.m_aValues) |-> aFromValues[i]]]

\* the add that leaves a cell alone where the update is not a number
AddExpanded_SkipsNaN(tensor, aFromValues) ==
    [tensor EXCEPT !.m_aValues =
        [i \in 1..Len(tensor.m_aValues) |->
            IF IsNaN(aFromValues[i]) THEN tensor.m_aValues[i]
            ELSE FAdd(tensor.m_aValues[i], aFromValues[i])]]

\* element-wise add of the first values of aFromValues into an expanded tensor
AddExpanded(tensor, aFromValues) ==
    [tensor EXCEPT !.m_aValues =
        [i \in 1..Len(tensor.m_aValues) |-> FAdd(tensor.m_aValues[i], aFromValues[i])]]

\* the copy that keeps the values and not the expanded representation
Copy_Unexpanded(rhs) == [rhs EXCEPT !.m_bExpanded = FALSE]

\* the destination after a successful Copy
Copy(rhs) == rhs

(* ------------------------------------------------------------------ *)
(* TrainingSetTargetFeatureLoop                                        *)
(* ------------------------------------------------------------------ *)
(* The passes walk flat buffers with pointers.  A pointer is modelled  *)
(* as the number of elements before it (so buffer[p + 1] is *p).  The  *)
(* walk state st holds the buffers written and the pointers; ctx holds *)
(* what the pass only reads.                                           *)

PassContext(bRegression, cTargetStates, iZeroResidual, pFeatureCombination, pDataSet, aInputData, aModelUpdateTensor) ==
    [bRegression |-> bRegression,
     cTargetStates |-> cTargetStates,
     cVectorLength |-> GetVectorLengthFlatCore(cTargetStates),
     iZeroResidual |-> iZeroResidual,
     cCases |-> pDataSet.m_cCases,
     aTargetData |-> pDataSet.m_aTargetData,
     aInputData |-> aInputData,
     aModelUpdateTensor |-> aModelUpdateTensor,
     cItemsPerBitPackDataUnit |-> pFeatureCombination.m_cItemsPerBitPackDataUnit,
     cBitsPerItemMax |->
         IF pFeatureCombination.m_cFeatures = 0 THEN 0
         ELSE GetCountBits(pFeatureCombination.m_cItemsPerBitPackDataUnit)]

\* maskBits & iBinCombined, with maskBits = max >> (k_cBitsForStorageType - cBitsPerItemMax)
MaskBin(ctx, iBinCombined) == iBinCombined % Pow2(ctx.cBitsPerItemMax)

\* the shift by one bit whatever the item width
ShiftBin_OneBit(ctx, iBinCombined) == iBinCombined \div 2

\* iBinCombined >>= cBitsPerItemMax
ShiftBin(ctx, iBinCombined) == iBinCombined \div Pow2(ctx.cBitsPerItemMax)

\* the update added to the residual in place of subtracted
TrainingCaseRegression_AddsUpdate(ctx, st, iBin) ==
    LET smallChangeToPrediction == ctx.aModelUpdateTensor[iBin * ctx.cVectorLength + 1]
        residualError == ComputeRegressionResidualError(
            FAdd(st.aResidualErrors[st.pResidualError + 1], smallChangeToPrediction))
    IN [st EXCEPT !.aResidualErrors[st.pResidualError + 1] = residualError,
                  !.pResidualError = st.pResidualError + 1]

\* regression: *pResidualError = *pResidualError - update[iBin]; ++pResidualError
TrainingCaseRegression(ctx, st, iBin) ==
    LET smallChangeToPrediction == ctx.aModelUpdateTensor[iBin * ctx.cVectorLength + 1]
        residualError == ComputeRegressionResidualError(
            FSub(st.aResidualErrors[st.pResidualError + 1], smallChangeToPrediction))
    IN [st EXCEPT !.aResidualErrors[st.pResidualError + 1] = residualError,
                  !.pResidualError = st.pResidualError + 1]

\* the residual computed from the score as it was before the update
TrainingCaseBinary_StaleScore(ctx, st, iBin) ==
    LET targetData == ctx.aTargetData[st.pTargetData + 1]
        smallChangeToPredictionScores == ctx.aModelUpdateTensor[iBin * ctx.cVectorLength + 1]
        trainingPredictionScore ==
            FAdd(st.aPredictionScores[st.pPredictionScores + 1], smallChangeToPredictionScores)
        residualError ==
            ComputeClassificationResidualErrorBinaryclass(
                st.aPredictionScores[st.pPredictionScores + 1], targetData)
    IN [st EXCEPT !.aPredictionScores[st.pPredictionScores + 1] = trainingPredictionScore,
                  !.aResidualErrors[st.pResidualError + 1] = residualError,
                  !.pResidualError = st.pResidualError + 1,
                  !.pPredictionScores = st.pPredictionScores + ctx.cVectorLength,
                  !.pTargetData = st.pTargetData + 1]

\* binary: score += update[iBin]; residual from the new score
TrainingCaseBinary(ctx, st, iBin) ==
    LET targetData == ctx.aTargetData[st.pTargetData + 1]
        smallChangeToPredictionScores == ctx.aModelUpdateTensor[iBin * ctx.cVectorLength + 1]
        trainingPredictionScore ==
            FAdd(st.aPredictionScores[st.pPredictionScores + 1], smallChangeToPredictionScores)
        residualError ==
            ComputeClassificationResidualErrorBinaryclass(trainingPredictionScore, targetData)
    IN [st EXCEPT !.aPredictionScores[st.pPredictionScores + 1] = trainingPredictionScore,
                  !.aResidualErrors[st.pResidualError + 1] = residualError,
                  !.pResidualError = st.pResidualError + 1,
                  !.pPredictionScores = st.pPredictionScores + ctx.cVectorLength,
                  !.pTargetData = st.pTargetData + 1]

\* the zeroing indexed forward from the advanced pointer: the next case's slot
ZeroResidualSlot_NextCase(ctx, pResidualError) == pResidualError + ctx.iZeroResidual

\* the slot the residual zeroing writes, pResidualError being past the case
ZeroResidualSlot(ctx, pResidualError) ==
    pResidualError + ctx.iZeroResidual - ctx.cVectorLength

\* multiclass: every score of the case += its update value, sumExp over the
\* new scores, one residual per class, then the optional zeroing
TrainingCaseMulticlass(ctx, st, iBin) ==
    LET V == ctx.cVectorLength
        targetData == ctx.aTargetData[st.pTargetData + 1]
        pValues == iBin * V
        pScores == st.pPredictionScores
        scores == [i \in 1..Len(st.aPredictionScores) |->
                      IF pScores < i /\ i <= pScores + V
                      THEN FAdd(st.aPredictionScores[i], ctx.aModelUpdateTensor[pValues + (i - pScores)])
                      ELSE st.aPredictionScores[i]]
        sumExp == FSum([iVector1 \in 1..V |-> FExp(scores[pScores + iVector1])])
        pRes == st.pResidualError
        written == [i \in 1..Len(st.aResidualErrors) |->
                      IF pRes < i /\ i <= pRes + V
                      THEN ComputeClassificationResidualErrorMulticlass(
                               sumExp, scores[pScores + (i - pRes)], targetData, i - pRes - 1)
                      ELSE st.aResidualErrors[i]]
        pResAfter == pRes + V
        bZeroingResiduals == 0 <= ctx.iZeroResidual
        zeroed == IF bZeroingResiduals
                  THEN [written EXCEPT ![ZeroResidualSlot(ctx, pResAfter) + 1] = Num(0)]
                  ELSE written
    IN [st EXCEPT !.aPredictionScores = scores,
                  !.aResidualErrors = zeroed,
                  !.pResidualError = pResAfter,
                  !.pPredictionScores = pScores + V,
                  !.pTargetData = st.pTargetData + 1]

\* one case of the training pass
TrainingCase(ctx, st, iBin) ==
    IF ctx.bRegression THEN TrainingCaseRegression(ctx, st, iBin)
    ELSE IF ctx.cTargetStates = 2 THEN TrainingCaseBinary(ctx, st, iBin)
    ELSE TrainingCaseMulticlass(ctx, st, iBin)

\* do { one case; iBinCombined >>= B; --cItemsRemaining } while(0 != cItemsRemaining)
RECURSIVE TrainingItems(_, _, _, _)
TrainingItems(ctx, st, iBinCombined, cItemsRemaining) ==
    LET Rest(next) ==
            IF cItemsRemaining - 1 = 0 THEN next
            ELSE TrainingItems(ctx, next, ShiftBin(ctx, iBinCombined), cItemsRemaining - 1)
    IN Rest(TrainingCase(ctx, st, MaskBin(ctx, iBinCombined)))

\* iBinCombined = *pInputData; ++pInputData; then the items of the word
TrainingWord(ctx, st, cItemsRemaining) ==
    TrainingItems(ctx, [st EXCEPT !.pInputData = st.pInputData + 1,
                                  !.cWordsRead = st.cWordsRead + 1],
                  ctx.aInputData[st.pInputData + 1], cItemsRemaining)

\* the full words only: the cases of the last word are left out
RECURSIVE TrainingWords_NoTail(_, _)
TrainingWords_NoTail(ctx, st) ==
    IF st.pResidualError < ctx.cVectorLength * (ctx.cCases - ctx.cItemsPerBitPackDataUnit)
    THEN TrainingWords_NoTail(ctx, TrainingWord(ctx, st, ctx.cItemsPerBitPackDataUnit))
    ELSE st

\* while(pResidualError < pLast) over full words; then, if cases remain,
\* one re-entry for the remaining items, after which the while test runs again
RECURSIVE TrainingWords(_, _)
TrainingWords(ctx, st) ==
    LET pLast == ctx.cVectorLength * (ctx.cCases - ctx.cItemsPerBitPackDataUnit)
        pResidualErrorEnd == pLast + ctx.cVectorLength * ctx.cItemsPerBitPackDataUnit
        bTail == ~(st.pResidualError < pLast)
    IN IF st.pResidualError < pResidualErrorEnd
       THEN TrainingWords(ctx,
                TrainingWord(ctx,
                    IF bTail
                    THEN [st EXCEPT !.cTailEntries = st.cTailEntries + 1,
                                    !.cTailItems = st.cTailItems
                                        + (pResidualErrorEnd - st.pResidualError)
                                              \div ctx.cVectorLength]
                    ELSE st,
                    IF bTail
                    THEN (pResidualErrorEnd - st.pResidualError) \div ctx.cVectorLength
                    ELSE ctx.cItemsPerBitPackDataUnit))
       ELSE st

\* the zero-dimensional pass that stops after its first case
TrainingZeroDimensional_FirstCaseOnly(ctx, st) ==
    IF st.pResidualError = ctx.cVectorLength * ctx.cCases THEN st
    ELSE TrainingCase(ctx, st, 0)

\* the zero-dimensional pass: every case reads the update at bin 0
RECURSIVE TrainingZeroDimensional(_, _)
TrainingZeroDimensional(ctx, st) ==
    IF st.pResidualError = ctx.cVectorLength * ctx.cCases THEN st
    ELSE TrainingZeroDimensional(ctx, TrainingCase(ctx, st, 0))

\* the walk of a whole pass, from the start of the buffers
TrainingSetWalk(bRegression, cTargetStates, iZeroResidual, pFeatureCombination, pTrainingSet, iFeatureCombination, aModelUpdateTensor) ==
    LET ctx == PassContext(bRegression, cTargetStates, iZeroResidual, pFeatureCombination,
                           pTrainingSet, pTrainingSet.m_aaInputData[iFeatureCombination],
                           aModelUpdateTensor)
        st0 == [aResidualErrors |-> pTrainingSet.m_aResidualErrors,
                aPredictionScores |-> pTrainingSet.m_aPredictionScores,
                pResidualError |-> 0, pPredictionScores |-> 0, pTargetData |-> 0,
                pInputData |-> 0, cWordsRead |-> 0, cTailEntries |-> 0, cTailItems |-> 0]
    IN IF pFeatureCombination.m_cFeatures = 0 THEN TrainingZeroDimensional(ctx, st0)
       ELSE TrainingWords(ctx, st0)

\* the training set after the pass
TrainingSetTargetFeatureLoop(bRegression, cTargetStates, iZeroResidual, pFeatureCombination, pTrainingSet, iFeatureCombination, aModelUpdateTensor) ==
    LET Written(st) ==
            [pTrainingSet EXCEPT !.m_aResidualErrors = st.aResidualErrors,
                                 !.m_aPredictionScores = st.aPredictionScores]
    IN Written(TrainingSetWalk(bRegression, cTargetStates, iZeroResidual, pFeatureCombination,
                               pTrainingSet, iFeatureCombination, aModelUpdateTensor))

(* ------------------------------------------------------------------ *)
(* ValidationSetTargetFeatureLoop                                      *)
(* ------------------------------------------------------------------ *)

\* regression: residual -= update[iBin]; rootMeanSquareError += residual^2
ValidationCaseRegression(ctx, st, iBin) ==
    LET smallChangeToPrediction == ctx.aModelUpdateTensor[iBin * ctx.cVectorLength + 1]
        residualError == ComputeRegressionResidualError(
            FSub(st.aResidualErrors[st.pResidualError + 1], smallChangeToPrediction))
    IN [st EXCEPT !.sum = FAdd(st.sum, FMul(residualError, residualError)),
                  !.aResidualErrors[st.pResidualError + 1] = residualError,
                  !.pResidualError = st.pResidualError + 1]

\* binary: score += update[iBin]; sumLogLoss += log loss of the new score
ValidationCaseBinary(ctx, st, iBin) ==
    LET targetData == ctx.aTargetData[st.pTargetData + 1]
        smallChangeToPredictionScores == ctx.aModelUpdateTensor[iBin * ctx.cVectorLength + 1]
        validationPredictionScores ==
            FAdd(st.aPredictionScores[st.pPredictionScores + 1], smallChangeToPredictionScores)
    IN [st EXCEPT !.aPredictionScores[st.pPredictionScores + 1] = validationPredictionScores,
                  !.sum = FAdd(st.sum, ComputeClassificationSingleCaseLogLossBinaryclass(
                                           validationPredictionScores, targetData)),
                  !.pPredictionScores = st.pPredictionScores + 1,
                  !.pTargetData = st.pTargetData + 1]

\* multiclass: scores += update slice; sumLogLoss += log(sumExp) - score[target]
ValidationCaseMulticlass(ctx, st, iBin) ==
    LET V == ctx.cVectorLength
        targetData == ctx.aTargetData[st.pTargetData + 1]
        pValues == iBin * V
        pScores == st.pPredictionScores
        scores == [i \in 1..Len(st.aPredictionScores) |->
                      IF pScores < i /\ i <= pScores + V
                      THEN FAdd(st.aPredictionScores[i], ctx.aModelUpdateTensor[pValues + (i - pScores)])
                      ELSE st.aPredictionScores[i]]
        sumExp == FSum([iVector \in 1..V |-> FExp(scores[pScores + iVector])])
        pScoresAfter == pScores + V
    IN [st EXCEPT !.aPredictionScores = scores,
                  !.sum = FAdd(st.sum, ComputeClassificationSingleCaseLogLossMulticlass(
                                           sumExp, scores[(pScoresAfter - V) + targetData + 1])),
                  !.pPredictionScores = pScoresAfter,
                  !.pTargetData = st.pTargetData + 1]

\* one case of the validation pass
ValidationCase(ctx, st, iBin) ==
    IF ctx.bRegression THEN ValidationCaseRegression(ctx, st, iBin)
    ELSE IF ctx.cTargetStates = 2 THEN ValidationCaseBinary(ctx, st, iBin)
    ELSE ValidationCaseMulticlass(ctx, st, iBin)

RECURSIVE ValidationItems(_, _, _, _)
ValidationItems(ctx, st, iBinCombined, cItemsRemaining) ==
    LET Rest(next) ==
            IF cItemsRemaining - 1 = 0 THEN next
            ELSE ValidationItems(ctx, next, ShiftBin(ctx, iBinCombined), cItemsRemaining - 1)
    IN Rest(ValidationCase(ctx, st, MaskBin(ctx, iBinCombined)))

ValidationWord(ctx, st, cItemsRemaining) ==
    ValidationItems(ctx, [st EXCEPT !.pInputData = st.pInputData + 1,
                                    !.cWordsRead = st.cWordsRead + 1],
                    ctx.aInputData[st.pInputData + 1], cItemsRemaining)

\* the pointer that drives the loop: the residuals in regression, the
\* scores in classification
ValidationPointer(ctx, st) ==
    IF ctx.bRegression THEN st.pResidualError ELSE st.pPredictionScores

RECURSIVE ValidationWords(_, _)
ValidationWords(ctx, st) ==
    LET pLast == IF ctx.bRegression
                 THEN ctx.cCases - ctx.cItemsPerBitPackDataUnit
                 ELSE ctx.cVectorLength * (ctx.cCases - ctx.cItemsPerBitPackDataUnit)
        pEnd == pLast + ctx.cVectorLength * ctx.cItemsPerBitPackDataUnit
        p == ValidationPointer(ctx, st)
        bTail == ~(p < pLast)
    IN IF p < pEnd
       THEN ValidationWords(ctx,
                ValidationWord(ctx,
                    IF bTail
                    THEN [st EXCEPT !.cTailEntries = st.cTailEntries + 1,
                                    !.cTailItems = st.cTailItems
                                        + (pEnd - p) \div ctx.cVectorLength]
                    ELSE st,
                    IF bTail THEN (pEnd - p) \div ctx.cVectorLength
                    ELSE ctx.cItemsPerBitPackDataUnit))
       ELSE st

RECURSIVE ValidationZeroDimensional(_, _)
ValidationZeroDimensional(ctx, st) ==
    IF ValidationPointer(ctx, st) = ctx.cVectorLength * ctx.cCases THEN st
    ELSE ValidationZeroDimensional(ctx, ValidationCase(ctx, st, 0))

ValidationSetWalk(bRegression, cTargetStates, pFeatureCombination, pValidationSet, iFeatureCombination, aModelUpdateTensor) ==
    LET ctx == PassContext(bRegression, cTargetStates, 0 - 1, pFeatureCombination,
                           pValidationSet, pValidationSet.m_aaInputData[iFeatureCombination],
                           aModelUpdateTensor)
        st0 == [aResidualErrors |-> pValidationSet.m_aResidualErrors,
                aPredictionScores |-> pValidationSet.m_aPredictionScores,
                sum |-> Num(0),
                pResidualError |-> 0, pPredictionScores |-> 0, pTargetData |-> 0,
                pInputData |-> 0, cWordsRead |-> 0, cTailEntries |-> 0, cTailItems |-> 0]
    IN IF pFeatureCombination.m_cFeatures = 0 THEN ValidationZeroDimensional(ctx, st0)
       ELSE ValidationWords(ctx, st0)

\* sqrt(rootMeanSquareError / cCases), in thousandths
RootMeanSquareError(sumSquares, cCases) ==
    IF IsNaN(sumSquares) THEN NaN
    ELSE Num(ISqrt((sumSquares.v * 1000000) \div cCases))

\* the validation set after the pass and the metric the pass returns:
\* RMSE for regression, the summed log loss for classification
ValidationSetTargetFeatureLoop(bRegression, cTargetStates, pFeatureCombination, pValidationSet, iFeatureCombination, aModelUpdateTensor) ==
    LET Written(st) ==
            [set |-> [pValidationSet EXCEPT !.m_aResidualErrors = st.aResidualErrors,
                                            !.m_aPredictionScores = st.aPredictionScores],
             metric |-> IF bRegression
                        THEN RootMeanSquareError(st.sum, pValidationSet.m_cCases)
                        ELSE st.sum]
    IN Written(ValidationSetWalk(bRegression, cTargetStates, pFeatureCombination,
                                 pValidationSet, iFeatureCombination, aModelUpdateTensor))

(* ------------------------------------------------------------------ *)
(* EbmTrainingState: construction and Initialize                       *)
(* ------------------------------------------------------------------ *)

IsNull(pDataSet) == pDataSet.m_cCases = 0

\* The EbmTrainingState after its constructor and a successful Initialize.
\* The caller's arrays are aFeatures, the combinations' feature counts and
\* their flat index stream, and per data set the bins by (feature, case)
\* and the targets by case.
Initialize(bRegression, iZeroResidual, cTargetStates, aFeatures, aFeatureCombinations, featureCombinationIndexes, cTrainingCases, aTrainingData, aTrainingTargets, cValidationCases, aValidationData, aValidationTargets, bScoresGiven, cInnerBags) ==
    LET cVectorLength == GetVectorLengthFlatCore(cTargetStates)
        Built(combinations, bModels) ==
            [m_bRegression |-> bRegression,
             m_cTargetStates |-> cTargetStates,
             m_cFeatureCombinations |-> Len(combinations),
             m_apFeatureCombinations |-> combinations,
             m_pTrainingSet |->
                 IF 0 # cTrainingCases
                 THEN DataSetByFeatureCombination(TRUE, bRegression, cTargetStates,
                          iZeroResidual, aFeatures, combinations, cTrainingCases,
                          aTrainingData, aTrainingTargets, bScoresGiven)
                 ELSE NullDataSet,
             m_pValidationSet |->
                 IF 0 # cValidationCases
                 THEN DataSetByFeatureCombination(bRegression, bRegression, cTargetStates,
                          iZeroResidual, aFeatures, combinations, cValidationCases,
                          aValidationData, aValidationTargets, bScoresGiven)
                 ELSE NullDataSet,
             m_cSamplingSets |-> cInnerBags,
             m_apSamplingSets |-> 0 # cTrainingCases,
             m_apCurrentModel |->
                 IF bModels THEN InitializeSegmentedTensors(combinations, cVectorLength)
                 ELSE << >>,
             m_apBestModel |->
                 IF bModels THEN InitializeSegmentedTensors(combinations, cVectorLength)
                 ELSE << >>,
             m_bestModelMetric |-> Infinity,
             m_pSmallChangeToModelOverwriteSingleSamplingSet |->
                 [m_cDimensions |-> k_cDimensionsMax, m_bExpanded |-> FALSE,
                  m_aValues |-> Zeros(cVectorLength)],
             m_pSmallChangeToModelAccumulatedFromSamplingSets |->
                 [m_cDimensions |-> k_cDimensionsMax, m_bExpanded |-> FALSE,
                  m_aValues |-> Zeros(cVectorLength)],
             m_aFeatures |-> aFeatures]
        Combined(combinations) ==
            Built(combinations,
                  0 # Len(combinations) /\ (bRegression \/ 2 <= cTargetStates))
    IN Combined(InitializeFeatureCombinations(
                    aFeatures, aFeatureCombinations, featureCombinationIndexes))

\* The training state AllocateCore returns when initialization succeeds,
\* for the caller's data of this section.
AllocateCore(bRegression, iZeroResidual, cTargetStates, cTrainingCases, cValidationCases, bScoresGiven, cInnerBags) ==
    Initialize(bRegression, iZeroResidual, cTargetStates,
        Features, FeatureCombinationCounts, FeatureCombinationIndexes,
        cTrainingCases,
        [f \in 1..Len(Features), i \in 0..(cTrainingCases - 1) |-> TrainingData(f, i)],
        [i \in 0..(cTrainingCases - 1) |->
            IF bRegression THEN RegressionTrainingTarget(i)
            ELSE ClassificationTrainingTarget(i, cTargetStates)],
        cValidationCases,
        [f \in 1..Len(Features), i \in 0..(cValidationCases - 1) |-> ValidationData(f, i)],
        [i \in 0..(cValidationCases - 1) |->
            IF bRegression THEN RegressionValidationTarget(i)
            ELSE ClassificationValidationTarget(i, cTargetStates)],
        bScoresGiven, cInnerBags)

(* ------------------------------------------------------------------ *)
(* GenerateModelFeatureCombinationUpdate                               *)
(* ------------------------------------------------------------------ *)
(* A tree learner is outside the core: what it writes for one sampling *)
(* set is an input of the call, a record [bError, aValues, gain,       *)
(* bAddError] with aValues the update over the combination's full bin  *)
(* grid, bError the learner's failure and bAddError the failure of the *)
(* Add that follows it.  bExpandError is the failure of the Expand.    *)

\* the accumulator left holding ones
Reset_Ones(cDimensions, cValues) ==
    [m_cDimensions |-> cDimensions, m_bExpanded |-> FALSE,
     m_aValues |-> [i \in 1..cValues |-> Num(1)]]

\* SetCountDimensions(cDimensions); Reset(): the zero tensor, not expanded
Reset(cDimensions, cValues) ==
    [m_cDimensions |-> cDimensions, m_bExpanded |-> FALSE, m_aValues |-> Zeros(cValues)]

\* Add(rhs): value-wise sum over the grid
Add(tensor, rhs) ==
    [tensor EXCEPT !.m_aValues =
        [i \in 1..Len(tensor.m_aValues) |-> FAdd(tensor.m_aValues[i], rhs.m_aValues[i])]]

\* the halving applied whatever the divisor
Scale_AlwaysHalved(a, learningRate, cSamplingSets, divisor) ==
    IF IsNaN(a) THEN NaN
    ELSE LET n == a.v * learningRate
             d == cSamplingSets * 2
         IN Num(IF n >= 0 THEN n \div d ELSE 0 - ((0 - n) \div d))

\* a value times learningRate / cSamplingSets / divisor, rounded to the grid
Scale(a, learningRate, cSamplingSets, divisor) ==
    IF IsNaN(a) THEN NaN
    ELSE LET n == a.v * learningRate
             d == cSamplingSets * divisor
         IN Num(IF n >= 0 THEN n \div d ELSE 0 - ((0 - n) \div d))

\* Multiply(learningRate / cSamplingSetsAfterZero [/ 2])
Multiply(tensor, learningRate, cSamplingSets, divisor) ==
    [tensor EXCEPT !.m_aValues =
        [i \in 1..Len(tensor.m_aValues) |->
            Scale(tensor.m_aValues[i], learningRate, cSamplingSets, divisor)]]

\* Expand(acDivisionIntegersEnd): dense over the full grid
Expand(tensor) == [tensor EXCEPT !.m_bExpanded = TRUE]

\* the gain one sampling set adds: only the one-dimensional learner is
\* handed the gain variable
SamplingSetGain(pFeatureCombination, learner) ==
    IF pFeatureCombination.m_cFeatures = 1 THEN learner.gain ELSE 0

\* the loop over the sampling sets, from set number iSamplingSet on; g holds
\* the two scratch tensors, totalGain and whether a learner or Add failed.
\* A failing Add comes after the learner wrote the overwrite tensor and
\* after totalGain += gain.
RECURSIVE SamplingSetLoop(_, _, _, _)
SamplingSetLoop(pFeatureCombination, learners, g, iSamplingSet) ==
    IF iSamplingSet > Len(learners) THEN g
    ELSE LET learner == learners[iSamplingSet]
         IN IF learner.bError THEN [g EXCEPT !.bError = TRUE]
            ELSE LET overwrite == [g.overwrite EXCEPT !.m_bExpanded = FALSE,
                                                      !.m_aValues = learner.aValues]
                 IN IF learner.bAddError
                    THEN [g EXCEPT !.overwrite = overwrite,
                                   !.totalGain = g.totalGain
                                                 + SamplingSetGain(pFeatureCombination, learner),
                                   !.bError = TRUE]
                    ELSE SamplingSetLoop(pFeatureCombination, learners,
                             [g EXCEPT !.overwrite = overwrite,
                                       !.totalGain = g.totalGain
                                                     + SamplingSetGain(pFeatureCombination, learner),
                                       !.accumulated = Add(g.accumulated, overwrite)],
                             iSamplingSet + 1)

\* totalGain written to *pGainReturn whatever the outcome
GainReturn_Always(g) == g.totalGain

\* *pGainReturn at the return: zeroed on entry, and written with totalGain
\* only after the last point at which the call can fail
GainReturn(g) == IF g.bError THEN 0 ELSE g.totalGain

\* Returns [state, aModelUpdateTensor, gainReturn]; aModelUpdateTensor is
\* << >> for a null return and otherwise the accumulator's values, which the
\* returned pointer aliases.
GenerateModelFeatureCombinationUpdatePerTargetStates(pEbmTrainingState, bExpandBinaryLogits, iFeatureCombination, learningRate, learners, bExpandError) ==
    LET es == pEbmTrainingState
        cSamplingSetsAfterZero == IF 0 = es.m_cSamplingSets THEN 1 ELSE es.m_cSamplingSets
        pFeatureCombination == es.m_apFeatureCombinations[iFeatureCombination]
        cDimensions == pFeatureCombination.m_cFeatures
        cValues == TensorLength(pFeatureCombination, GetVectorLengthFlatCore(es.m_cTargetStates))
        bDividing == bExpandBinaryLogits /\ ~es.m_bRegression /\ 2 = es.m_cTargetStates
        \* the loop over the sampling sets
        Accumulated(g) ==
            IF es.m_apSamplingSets
            THEN SamplingSetLoop(pFeatureCombination, learners,
                     [g EXCEPT !.overwrite.m_cDimensions = cDimensions], 1)
            ELSE g
        \* totalGain /= cSamplingSetsAfterZero; Multiply
        Multiplied(g) ==
            IF es.m_apSamplingSets /\ ~g.bError
            THEN [g EXCEPT !.totalGain = g.totalGain \div cSamplingSetsAfterZero,
                           !.accumulated = Multiply(g.accumulated, learningRate,
                                                    cSamplingSetsAfterZero,
                                                    IF bDividing THEN 2 ELSE 1)]
            ELSE g
        \* Expand
        Expanded(g) ==
            IF ~g.bError /\ 0 # cDimensions
            THEN IF bExpandError THEN [g EXCEPT !.bError = TRUE]
                 ELSE [g EXCEPT !.accumulated = Expand(g.accumulated)]
            ELSE g
        Returned(g) ==
            [state |-> [es EXCEPT !.m_pSmallChangeToModelAccumulatedFromSamplingSets = g.accumulated,
                                  !.m_pSmallChangeToModelOverwriteSingleSamplingSet = g.overwrite],
             aModelUpdateTensor |-> IF g.bError THEN << >> ELSE g.accumulated.m_aValues,
             gainReturn |-> GainReturn(g)]
    IN Returned(Expanded(Multiplied(Accumulated(
           [accumulated |-> Reset(cDimensions, cValues),
            overwrite |-> es.m_pSmallChangeToModelOverwriteSingleSamplingSet,
            totalGain |-> 0, bError |-> FALSE]))))

\* the generate that also adds the update it returns to the current model
GenerateModelFeatureCombinationUpdate_UpdatesModel(pEbmTrainingState, bExpandBinaryLogits, iFeatureCombination, learningRate, learners, bExpandError) ==
    LET Added(r) ==
            IF r.aModelUpdateTensor = << >> THEN r
            ELSE [r EXCEPT !.state.m_apCurrentModel[iFeatureCombination] =
                     AddExpanded(@, r.aModelUpdateTensor)]
    IN IF ~pEbmTrainingState.m_bRegression /\ pEbmTrainingState.m_cTargetStates <= 1
       THEN [state |-> pEbmTrainingState, aModelUpdateTensor |-> << >>, gainReturn |-> 0]
       ELSE Added(GenerateModelFeatureCombinationUpdatePerTargetStates(
                      pEbmTrainingState, bExpandBinaryLogits, iFeatureCombination,
                      learningRate, learners, bExpandError))

\* the entry point: a classification with at most one target state has no model
GenerateModelFeatureCombinationUpdate(pEbmTrainingState, bExpandBinaryLogits, iFeatureCombination, learningRate, learners, bExpandError) ==
    IF ~pEbmTrainingState.m_bRegression /\ pEbmTrainingState.m_cTargetStates <= 1
    THEN [state |-> pEbmTrainingState, aModelUpdateTensor |-> << >>, gainReturn |-> 0]
    ELSE GenerateModelFeatureCombinationUpdatePerTargetStates(
             pEbmTrainingState, bExpandBinaryLogits, iFeatureCombination, learningRate, learners,
             bExpandError)

(* ------------------------------------------------------------------ *)
(* ApplyModelFeatureCombinationUpdate                                  *)
(* ------------------------------------------------------------------ *)

\* only the first tensor copied
BestModelCommit_FirstOnly(apBestModel, apCurrentModel, iCopyFailure) ==
    [apBestModel EXCEPT ![1] = apCurrentModel[1]]

\* the commit that puts the best model back when a Copy fails
BestModelCommit_RollsBack(apBestModel, apCurrentModel, iCopyFailure) ==
    [iModel \in 1..Len(apBestModel) |->
        IF iCopyFailure = 0 THEN Copy(apCurrentModel[iModel]) ELSE apBestModel[iModel]]

\* The do-while that copies every current tensor into best.  iCopyFailure
\* is the number of the combination whose Copy fails, 0 when none does; the
\* loop returns at the failing Copy, leaving the later tensors as they were.
BestModelCommit(apBestModel, apCurrentModel, iCopyFailure) ==
    [iModel \in 1..Len(apBestModel) |->
        IF iCopyFailure = 0 \/ iModel < iCopyFailure
        THEN Copy(apCurrentModel[iModel])
        ELSE apBestModel[iModel]]

\* the test outside the validation-set branch
IsBestModelMetricImproved_Unguarded(pValidationSet, modelMetric, bestModelMetric) ==
    FLess(modelMetric, bestModelMetric)

\* the test that guards the commit: it sits inside the validation-set branch
IsBestModelMetricImproved(pValidationSet, modelMetric, bestModelMetric) ==
    ~IsNull(pValidationSet) /\ FLess(modelMetric, bestModelMetric)

\* no Copy ever reports a failure
IsCopyError_Never(bImproved, iCopyFailure) == FALSE

\* a Copy of the commit loop failed: the loop runs only on an improved metric
IsCopyError(bImproved, iCopyFailure) == bImproved /\ iCopyFailure # 0

\* Returns [state, ret, validationMetricReturn].
ApplyModelFeatureCombinationUpdatePerTargetStates(pEbmTrainingState, iZeroResidual, iFeatureCombination, aModelUpdateTensor, iCopyFailure) ==
    LET es == pEbmTrainingState
        pFeatureCombination == es.m_apFeatureCombinations[iFeatureCombination]
        apCurrentModel == [es.m_apCurrentModel EXCEPT ![iFeatureCombination] =
                              AddExpanded(es.m_apCurrentModel[iFeatureCombination],
                                          aModelUpdateTensor)]
        pTrainingSet ==
            IF ~IsNull(es.m_pTrainingSet)
            THEN TrainingSetTargetFeatureLoop(es.m_bRegression, es.m_cTargetStates,
                     iZeroResidual, pFeatureCombination, es.m_pTrainingSet,
                     iFeatureCombination, aModelUpdateTensor)
            ELSE es.m_pTrainingSet
        \* the validation pass: the set after it and the metric
        validation ==
            IF ~IsNull(es.m_pValidationSet)
            THEN ValidationSetTargetFeatureLoop(es.m_bRegression, es.m_cTargetStates,
                     pFeatureCombination, es.m_pValidationSet,
                     iFeatureCombination, aModelUpdateTensor)
            ELSE [set |-> es.m_pValidationSet, metric |-> Num(0)]
        \* the commit of the best model and the return
        Committed(currentModel, trainingSet, validationSet, modelMetric, bImproved) ==
            [state |-> [es EXCEPT
                 !.m_apCurrentModel = currentModel,
                 !.m_pTrainingSet = trainingSet,
                 !.m_pValidationSet = validationSet,
                 !.m_bestModelMetric = IF bImproved THEN modelMetric ELSE es.m_bestModelMetric,
                 !.m_apBestModel = IF bImproved
                                   THEN BestModelCommit(es.m_apBestModel, currentModel, iCopyFailure)
                                   ELSE es.m_apBestModel],
             ret |-> IF IsCopyError(bImproved, iCopyFailure) THEN 1 ELSE 0,
             validationMetricReturn |->
                 IF IsCopyError(bImproved, iCopyFailure) THEN Num(0) ELSE modelMetric]
        Compared(currentModel, trainingSet, validationSet, modelMetric) ==
            Committed(currentModel, trainingSet, validationSet, modelMetric,
                      IsBestModelMetricImproved(es.m_pValidationSet, modelMetric,
                                                es.m_bestModelMetric))
        Validated(currentModel, trainingSet, v) ==
            Compared(currentModel, trainingSet, v.set, v.metric)
    IN Validated(apCurrentModel, pTrainingSet, validation)

\* the apply that leaves the accumulator scratch tensor zeroed
ApplyModelFeatureCombinationUpdate_ResetsScratch(pEbmTrainingState, iZeroResidual, iFeatureCombination, modelUpdateTensor, iCopyFailure) ==
    LET Cleared(r) ==
            [r EXCEPT !.state.m_pSmallChangeToModelAccumulatedFromSamplingSets.m_aValues =
                          Zeros(Len(@))]
    IN IF modelUpdateTensor = << >>
       THEN [state |-> pEbmTrainingState, ret |-> 0, validationMetricReturn |-> Num(0)]
       ELSE IF ~pEbmTrainingState.m_bRegression /\ pEbmTrainingState.m_cTargetStates <= 1
       THEN [state |-> pEbmTrainingState, ret |-> 0, validationMetricReturn |-> Num(0)]
       ELSE Cleared(ApplyModelFeatureCombinationUpdatePerTargetStates(
                        pEbmTrainingState, iZeroResidual, iFeatureCombination,
                        modelUpdateTensor, iCopyFailure))

\* the apply that takes a null update for an update of zeros
ApplyModelFeatureCombinationUpdate_NullAsZeros(pEbmTrainingState, iZeroResidual, iFeatureCombination, modelUpdateTensor, iCopyFailure) ==
    IF ~pEbmTrainingState.m_bRegression /\ pEbmTrainingState.m_cTargetStates <= 1
    THEN [state |-> pEbmTrainingState, ret |-> 0, validationMetricReturn |-> Num(0)]
    ELSE ApplyModelFeatureCombinationUpdatePerTargetStates(
             pEbmTrainingState, iZeroResidual, iFeatureCombination,
             IF modelUpdateTensor = << >>
             THEN Zeros(Len(pEbmTrainingState.m_apCurrentModel[iFeatureCombination].m_aValues))
             ELSE modelUpdateTensor,
             iCopyFailure)

\* the entry point; modelUpdateTensor is << >> for a null pointer
ApplyModelFeatureCombinationUpdate(pEbmTrainingState, iZeroResidual, iFeatureCombination, modelUpdateTensor, iCopyFailure) ==
    IF modelUpdateTensor = << >>
    THEN [state |-> pEbmTrainingState, ret |-> 0, validationMetricReturn |-> Num(0)]
    ELSE IF ~pEbmTrainingState.m_bRegression /\ pEbmTrainingState.m_cTargetStates <= 1
    THEN [state |-> pEbmTrainingState, ret |-> 0, validationMetricReturn |-> Num(0)]
    ELSE ApplyModelFeatureCombinationUpdatePerTargetStates(
             pEbmTrainingState, iZeroResidual, iFeatureCombination, modelUpdateTensor,
             iCopyFailure)

(* ------------------------------------------------------------------ *)
(* TrainingStep                                                        *)
(* ------------------------------------------------------------------ *)

\* what the caller's validationMetricReturn holds before a call writes it
Unset == [k |-> "unset", v |-> 0]

\* the step without its own test for a degenerate classification: the null
\* tensor of the generate call makes it return 1
TrainingStep_Unguarded(pEbmTrainingState, bExpandBinaryLogits, iZeroResidual, iFeatureCombination, learningRate, learners, bExpandError, iCopyFailure) ==
    LET Applied(applied, modelUpdateTensor) ==
            [state |-> applied.state, ret |-> applied.ret,
             validationMetricReturn |-> applied.validationMetricReturn,
             modelUpdateTensor |-> modelUpdateTensor]
        Generated(generated) ==
            IF generated.aModelUpdateTensor = << >>
            THEN [state |-> generated.state, ret |-> 1, validationMetricReturn |-> Unset,
                  modelUpdateTensor |-> << >>]
            ELSE Applied(ApplyModelFeatureCombinationUpdate(
                             generated.state, iZeroResidual, iFeatureCombination,
                             generated.aModelUpdateTensor, iCopyFailure),
                         generated.aModelUpdateTensor)
    IN Generated(GenerateModelFeatureCombinationUpdate(
                     pEbmTrainingState, bExpandBinaryLogits, iFeatureCombination,
                     learningRate, learners, bExpandError))

\* the update applied to the state as it was before the generate call
TrainingStep_AppliesToStateBefore(pEbmTrainingState, bExpandBinaryLogits, iZeroResidual, iFeatureCombination, learningRate, learners, bExpandError, iCopyFailure) ==
    LET Applied(applied, modelUpdateTensor) ==
            [state |-> applied.state, ret |-> applied.ret,
             validationMetricReturn |-> applied.validationMetricReturn,
             modelUpdateTensor |-> modelUpdateTensor]
        Generated(generated) ==
            IF generated.aModelUpdateTensor = << >>
            THEN [state |-> generated.state, ret |-> 1, validationMetricReturn |-> Unset,
                  modelUpdateTensor |-> << >>]
            ELSE Applied(ApplyModelFeatureCombinationUpdate(
                             pEbmTrainingState, iZeroResidual, iFeatureCombination,
                             generated.aModelUpdateTensor, iCopyFailure),
                         generated.aModelUpdateTensor)
    IN Generated(GenerateModelFeatureCombinationUpdate(
                     pEbmTrainingState, bExpandBinaryLogits, iFeatureCombination,
                     learningRate, learners, bExpandError))

\* Returns [state, ret, validationMetricReturn, modelUpdateTensor].
TrainingStep(pEbmTrainingState, bExpandBinaryLogits, iZeroResidual, iFeatureCombination, learningRate, learners, bExpandError, iCopyFailure) ==
    IF ~pEbmTrainingState.m_bRegression /\ pEbmTrainingState.m_cTargetStates <= 1
    THEN [state |-> pEbmTrainingState, ret |-> 0, validationMetricReturn |-> Num(0),
          modelUpdateTensor |-> << >>]
    ELSE LET Applied(applied, modelUpdateTensor) ==
                 [state |-> applied.state, ret |-> applied.ret,
                  validationMetricReturn |-> applied.validationMetricReturn,
                  modelUpdateTensor |-> modelUpdateTensor]
             Generated(generated) ==
                 IF generated.aModelUpdateTensor = << >>
                 THEN [state |-> generated.state, ret |-> 1, validationMetricReturn |-> Unset,
                       modelUpdateTensor |-> << >>]
                 ELSE Applied(ApplyModelFeatureCombinationUpdate(
                                  generated.state, iZeroResidual, iFeatureCombination,
                                  generated.aModelUpdateTensor, iCopyFailure),
                              generated.aModelUpdateTensor)
         IN Generated(GenerateModelFeatureCombinationUpdate(
                          pEbmTrainingState, bExpandBinaryLogits, iFeatureCombination,
                          learningRate, learners, bExpandError))

(* ------------------------------------------------------------------ *)
(* GetCurrentModelFeatureCombination, GetBestModelFeatureCombination   *)
(* ------------------------------------------------------------------ *)

\* the value pointer of a current model tensor, << >> for a null return
GetCurrentModelFeatureCombination(pEbmTrainingState, iFeatureCombination) ==
    IF pEbmTrainingState.m_apCurrentModel = << >> THEN << >>
    ELSE pEbmTrainingState.m_apCurrentModel[iFeatureCombination].m_aValues

\* the value pointer of a best model tensor, << >> for a null return
GetBestModelFeatureCombination(pEbmTrainingState, iFeatureCombination) ==
    IF pEbmTrainingState.m_apBestModel = << >> THEN << >>
    ELSE pEbmTrainingState.m_apBestModel[iFeatureCombination].m_aValues

(* ------------------------------------------------------------------ *)
(* The state machine                                                   *)
(* ------------------------------------------------------------------ *)

VARIABLES
    pEbmTrainingState,      \* the EbmTrainingState object
    k_iZeroResidual,        \* build constant: class whose residual is zeroed, -1 for none
    bExpandBinaryLogits,    \* build constant: EXPAND_BINARY_LOGITS defined
    bScoresGiven,           \* the initializer was handed prediction scores
    bTensorReturned,        \* the caller holds a tensor pointer a generate call returned
    calls                   \* the entry-point calls made so far, oldest first: the
                            \* arguments, the results and the state before the call

vars == << pEbmTrainingState, k_iZeroResidual, bExpandBinaryLogits, bScoresGiven,
           bTensorReturned, calls >>

build == << k_iZeroResidual, bExpandBinaryLogits, bScoresGiven >>

\* a tensor whose values alternate a, -a, a, ...
Alternating(cValues, a) == [i \in 1..cValues |-> Num(IF i % 2 = 1 THEN a ELSE 0 - a)]

\* a tensor with one NaN
WithNaN(cValues) == [i \in 1..cValues |-> IF i = 1 THEN NaN ELSE Num(0)]

\* the update tensors a caller synthesizes
CallerUpdateTensors(cValues) ==
    { Zeros(cValues), Alternating(cValues, 1), Alternating(cValues, 0 - 1), WithNaN(cValues) }

\* what a tree learner may write for one sampling set
LearnerOutputs(cValues) ==
    { [bError |-> FALSE, aValues |-> Alternating(cValues, 1), gain |-> 0 - 2,
       bAddError |-> FALSE],
      [bError |-> FALSE, aValues |-> Alternating(cValues, 0 - 1), gain |-> 0,
       bAddError |-> FALSE] }

\* what the tree learners write during a training step
StepLearnerOutputs(cValues) ==
    { [bError |-> FALSE, aValues |-> Alternating(cValues, 1), gain |-> 0 - 2,
       bAddError |-> FALSE] }

LearningRates == { 2 }

\* the arguments of the initializers and the build constants
InitializeArguments ==
    { a \in [bRegression : BOOLEAN, cTargetStates : 0..3,
             cTrainingCases : {0, NumTrainingCases},
             cValidationCases : {0, NumValidationCases},
             bScoresGiven : BOOLEAN, cInnerBags : {0, 2},
             iZeroResidual : (0 - 1)..2, bExpandBinaryLogits : {FALSE}] :
        /\ a.bRegression <=> a.cTargetStates = 0
        /\ a.cTargetStates # 1
        /\ a.iZeroResidual >= 0 => a.cTargetStates > 2
        \* the configurations explored: prediction scores, inner bags and
        \* residual zeroing are exercised where both data sets are present
        /\ a.bScoresGiven => a.cTrainingCases > 0 /\ a.cValidationCases > 0
        /\ a.cInnerBags > 0 =>
              a.cTrainingCases > 0 /\ a.cValidationCases > 0 /\ ~a.bScoresGiven
                 /\ a.iZeroResidual < 0
        /\ a.iZeroResidual >= 0 =>
              a.cTrainingCases > 0 /\ a.cValidationCases > 0 /\ ~a.bScoresGiven
        /\ a.cTrainingCases = 0 /\ a.cValidationCases = 0 => a.bRegression }

Init ==
    \E a \in InitializeArguments :
        /\ pEbmTrainingState = AllocateCore(a.bRegression, a.iZeroResidual, a.cTargetStates,
                                            a.cTrainingCases, a.cValidationCases,
                                            a.bScoresGiven, a.cInnerBags)
        /\ k_iZeroResidual = a.iZeroResidual
        /\ bExpandBinaryLogits = a.bExpandBinaryLogits
        /\ bScoresGiven = a.bScoresGiven
        /\ bTensorReturned = FALSE
        /\ calls = << >>

Combinations == 1..pEbmTrainingState.m_cFeatureCombinations

cVectorLength == GetVectorLengthFlatCore(pEbmTrainingState.m_cTargetStates)

CombinationLength(c) == TensorLength(pEbmTrainingState.m_apFeatureCombinations[c], cVectorLength)

cSamplingSetsAfterZero ==
    IF 0 = pEbmTrainingState.m_cSamplingSets THEN 1 ELSE pEbmTrainingState.m_cSamplingSets

\* The entry-point actions.  bExpandError and iCopyFailure are the
\* allocation failures the call meets (FALSE and 0 for none).
GenerateUpdate(c, learningRate, learners, bExpandError) ==
    LET Returned(r) ==
            /\ pEbmTrainingState' = r.state
            /\ calls' = Append(calls,
                   [op |-> "GenerateModelFeatureCombinationUpdate",
                    indexFeatureCombination |-> c, modelUpdateTensor |-> r.aModelUpdateTensor,
                    learningRate |-> learningRate, learners |-> learners, ret |-> 0,
                    validationMetricReturn |-> Unset, gainReturn |-> r.gainReturn,
                    bExpandError |-> bExpandError, iCopyFailure |-> 0,
                    before |-> pEbmTrainingState])
            /\ bTensorReturned' = (bTensorReturned \/ r.aModelUpdateTensor # << >>)
    IN /\ Len(calls) < MaxCalls
       /\ Returned(GenerateModelFeatureCombinationUpdate(
                       pEbmTrainingState, bExpandBinaryLogits, c, learningRate, learners,
                       bExpandError))
       /\ UNCHANGED build

\* apply with a tensor the caller synthesized, or with a null pointer
ApplyUpdate(c, modelUpdateTensor, iCopyFailure) ==
    LET Returned(r) ==
            /\ pEbmTrainingState' = r.state
            /\ calls' = Append(calls,
                   [op |-> "ApplyModelFeatureCombinationUpdate",
                    indexFeatureCombination |-> c, modelUpdateTensor |-> modelUpdateTensor,
                    learningRate |-> 0, learners |-> << >>, ret |-> r.ret,
                    validationMetricReturn |-> r.validationMetricReturn, gainReturn |-> 0,
                    bExpandError |-> FALSE, iCopyFailure |-> iCopyFailure,
                    before |-> pEbmTrainingState])
    IN /\ Len(calls) < MaxCalls
       /\ Returned(ApplyModelFeatureCombinationUpdate(
                       pEbmTrainingState, k_iZeroResidual, c, modelUpdateTensor,
                       iCopyFailure))
       /\ UNCHANGED << build, bTensorReturned >>

\* apply with the pointer a generate call returned: it aliases the
\* accumulator scratch tensor, so the call reads what that tensor holds now
ApplyReturnedUpdate(c, iCopyFailure) ==
    LET aValues == pEbmTrainingState.m_pSmallChangeToModelAccumulatedFromSamplingSets.m_aValues
    IN /\ bTensorReturned
       /\ Len(aValues) >= CombinationLength(c)
       /\ ApplyUpdate(c, SubSeq(aValues, 1, CombinationLength(c)), iCopyFailure)

Step(c, learningRate, learners, bExpandError, iCopyFailure) ==
    LET Returned(r) ==
            /\ pEbmTrainingState' = r.state
            /\ calls' = Append(calls,
                   [op |-> "TrainingStep",
                    indexFeatureCombination |-> c, modelUpdateTensor |-> r.modelUpdateTensor,
                    learningRate |-> learningRate, learners |-> learners, ret |-> r.ret,
                    validationMetricReturn |-> r.validationMetricReturn, gainReturn |-> 0,
                    bExpandError |-> bExpandError, iCopyFailure |-> iCopyFailure,
                    before |-> pEbmTrainingState])
    IN /\ Len(calls) < MaxCalls
       /\ Returned(TrainingStep(pEbmTrainingState, bExpandBinaryLogits, k_iZeroResidual, c,
                                learningRate, learners, bExpandError, iCopyFailure))
       /\ UNCHANGED << build, bTensorReturned >>

Next ==
    \/ \E c \in Combinations, learningRate \in LearningRates :
         \E learners \in [1..cSamplingSetsAfterZero -> LearnerOutputs(CombinationLength(c))] :
            GenerateUpdate(c, learningRate, learners, FALSE)
    \/ \E c \in Combinations :
         \E modelUpdateTensor \in CallerUpdateTensors(CombinationLength(c)) :
            ApplyUpdate(c, modelUpdateTensor, 0)
    \/ \E c \in Combinations : ApplyUpdate(c, << >>, 0)
    \/ \E c \in Combinations : ApplyReturnedUpdate(c, 0)
    \/ \E c \in Combinations, learningRate \in LearningRates :
         \E learners \in [1..cSamplingSetsAfterZero -> StepLearnerOutputs(CombinationLength(c))] :
            Step(c, learningRate, learners, FALSE, 0)

Spec == Init /\ [][Next]_vars

(* ------------------------------------------------------------------ *)
(* The state machine with failures                                     *)
(* ------------------------------------------------------------------ *)
(* The same entry points on states that include a two-dimensional      *)
(* combination, classifications with at most one target state and      *)
(* both settings of EXPAND_BINARY_LOGITS, with tree learners and       *)
(* allocations that may fail.                                          *)

\* entry-point calls per behaviour of this state machine
MaxFaultCalls == 2

\* two features of more than one state
FaultFeatures == << [m_cStates |-> NumFeatureStates], [m_cStates |-> 2] >>

\* the intercept, a combination of the first feature and one of both
FaultFeatureCombinationCounts == << 0, 1, 2 >>
FaultFeatureCombinationIndexes == << 1, 1, 2 >>

FaultTrainingData(iFeature, iCase) ==
    (iCase + iFeature - 1) % FaultFeatures[iFeature].m_cStates
FaultValidationData(iFeature, iCase) ==
    (iCase + iFeature) % FaultFeatures[iFeature].m_cStates

\* targets of a classification: class 0 when there is a single class
FaultClassificationTarget(iCase, cTargetStates) ==
    IF cTargetStates <= 1 THEN 0 ELSE iCase % cTargetStates

\* << bRegression, cTargetStates, cTrainingCases, cValidationCases,
\*    cInnerBags, bExpandBinaryLogits >> of the initializations explored
FaultInitializeArguments ==
    { << TRUE, 0, NumTrainingCases, NumValidationCases, 0, FALSE >>,
      << TRUE, 0, NumTrainingCases, NumValidationCases, 2, FALSE >>,
      << TRUE, 0, NumTrainingCases, NumValidationCases, 2, TRUE >>,
      << TRUE, 0, 0, NumValidationCases, 0, FALSE >>,
      << TRUE, 0, NumTrainingCases, 0, 0, FALSE >>,
      << FALSE, 2, NumTrainingCases, NumValidationCases, 0, FALSE >>,
      << FALSE, 2, NumTrainingCases, NumValidationCases, 0, TRUE >>,
      << FALSE, 2, NumTrainingCases, NumValidationCases, 2, FALSE >>,
      << FALSE, 2, NumTrainingCases, NumValidationCases, 2, TRUE >>,
      << FALSE, 2, 0, NumValidationCases, 2, FALSE >>,
      << FALSE, 3, NumTrainingCases, NumValidationCases, 2, FALSE >>,
      << FALSE, 3, NumTrainingCases, NumValidationCases, 2, TRUE >>,
      << FALSE, 1, NumTrainingCases, NumValidationCases, 0, FALSE >>,
      << FALSE, 1, 0, 0, 2, FALSE >>,
      << FALSE, 0, 0, 0, 0, FALSE >> }

\* the training state of one of these initializations
FaultAllocateCore(bRegression, cTargetStates, cTrainingCases, cValidationCases, cInnerBags) ==
    Initialize(bRegression, 0 - 1, cTargetStates,
        FaultFeatures, FaultFeatureCombinationCounts, FaultFeatureCombinationIndexes,
        cTrainingCases,
        [f \in 1..Len(FaultFeatures), i \in 0..(cTrainingCases - 1) |-> FaultTrainingData(f, i)],
        [i \in 0..(cTrainingCases - 1) |->
            IF bRegression THEN RegressionTrainingTarget(i)
            ELSE FaultClassificationTarget(i, cTargetStates)],
        cValidationCases,
        [f \in 1..Len(FaultFeatures), i \in 0..(cValidationCases - 1) |-> FaultValidationData(f, i)],
        [i \in 0..(cValidationCases - 1) |->
            IF bRegression THEN RegressionValidationTarget(i)
            ELSE FaultClassificationTarget(i + 1, cTargetStates)],
        FALSE, cInnerBags)

InitFaults ==
    \E a \in FaultInitializeArguments :
        /\ pEbmTrainingState = FaultAllocateCore(a[1], a[2], a[3], a[4], a[5])
        /\ k_iZeroResidual = 0 - 1
        /\ bExpandBinaryLogits = a[6]
        /\ bScoresGiven = FALSE
        /\ bTensorReturned = FALSE
        /\ calls = << >>

\* what a tree learner and the Add after it may do for one sampling set
LearnerSucceeds(cValues, a, gain) ==
    [bError |-> FALSE, aValues |-> Alternating(cValues, a), gain |-> gain, bAddError |-> FALSE]
LearnerFails(cValues) ==
    [bError |-> TRUE, aValues |-> Zeros(cValues), gain |-> 0 - 2, bAddError |-> FALSE]
AddFails(cValues) ==
    [bError |-> FALSE, aValues |-> Alternating(cValues, 1), gain |-> 0 - 2, bAddError |-> TRUE]

\* the learners' behaviour over the sampling sets of a generate call: all
\* succeed, or the first learner fails, or the last learner or its Add fails
FaultLearners(cSamplingSets, cValues) ==
    { [i \in 1..cSamplingSets |-> LearnerSucceeds(cValues, 1, 0 - 2)],
      [i \in 1..cSamplingSets |->
          IF i = 1 THEN LearnerSucceeds(cValues, 0 - 2, 0 - 4)
          ELSE LearnerSucceeds(cValues, 4, 0 - 2)],
      [i \in 1..cSamplingSets |->
          IF i = 1 THEN LearnerFails(cValues) ELSE LearnerSucceeds(cValues, 1, 0 - 2)],
      [i \in 1..cSamplingSets |->
          IF i = cSamplingSets THEN LearnerFails(cValues)
          ELSE LearnerSucceeds(cValues, 1, 0 - 2)],
      [i \in 1..cSamplingSets |->
          IF i = cSamplingSets THEN AddFails(cValues)
          ELSE LearnerSucceeds(cValues, 1, 0 - 2)] }

\* the learners' behaviour during a training step
StepFaultLearners(cSamplingSets, cValues) ==
    { [i \in 1..cSamplingSets |-> LearnerSucceeds(cValues, 1, 0 - 2)],
      [i \in 1..cSamplingSets |->
          IF i = cSamplingSets THEN LearnerFails(cValues)
          ELSE LearnerSucceeds(cValues, 1, 0 - 2)] }

\* the update tensors a caller synthesizes
FaultUpdateTensors(cValues) == { Zeros(cValues), Alternating(cValues, 1) }

\* no Copy fails, or the Copy of the second tensor fails
CopyFailures == { 0, 2 }

\* the accessors: the call is recorded with the buffer it returns
GetModel(op, c, pRet) ==
    /\ Len(calls) < MaxCalls
    /\ calls' = Append(calls,
           [op |-> op, indexFeatureCombination |-> c, modelUpdateTensor |-> << >>,
            learningRate |-> 0, learners |-> << >>, ret |-> pRet,
            validationMetricReturn |-> Unset, gainReturn |-> 0,
            bExpandError |-> FALSE, iCopyFailure |-> 0,
            before |-> pEbmTrainingState])
    /\ UNCHANGED << pEbmTrainingState, build, bTensorReturned >>

GetCurrentModel(c) ==
    GetModel("GetCurrentModelFeatureCombination", c,
             GetCurrentModelFeatureCombination(pEbmTrainingState, c))

GetBestModel(c) ==
    GetModel("GetBestModelFeatureCombination", c,
             GetBestModelFeatureCombination(pEbmTrainingState, c))

NextFaults ==
    \/ /\ Len(calls) < MaxFaultCalls
       /\ \E c \in Combinations, learningRate \in LearningRates, bExpandError \in BOOLEAN :
            \E learners \in FaultLearners(cSamplingSetsAfterZero, CombinationLength(c)) :
               GenerateUpdate(c, learningRate, learners, bExpandError)
    \/ /\ Len(calls) < MaxFaultCalls
       /\ \E c \in Combinations, iCopyFailure \in CopyFailures :
            \E modelUpdateTensor \in FaultUpdateTensors(CombinationLength(c)) :
               ApplyUpdate(c, modelUpdateTensor, iCopyFailure)
    \/ /\ Len(calls) < MaxFaultCalls
       /\ \E c \in Combinations : ApplyUpdate(c, << >>, 0)
    \/ /\ Len(calls) < MaxFaultCalls
       /\ \E c \in Combinations, iCopyFailure \in CopyFailures :
            ApplyReturnedUpdate(c, iCopyFailure)
    \/ /\ Len(calls) < MaxFaultCalls
       /\ \E c \in Combinations, learningRate \in LearningRates, bExpandError \in BOOLEAN :
            \E learners \in StepFaultLearners(cSamplingSetsAfterZero, CombinationLength(c)) :
               \E iCopyFailure \in CopyFailures :
                  Step(c, learningRate, learners, bExpandError, iCopyFailure)
    \/ /\ Len(calls) < MaxFaultCalls
       /\ \E c \in Combinations : GetCurrentModel(c)
    \/ /\ Len(calls) < MaxFaultCalls
       /\ \E c \in Combinations : GetBestModel(c)

SpecFaults == InitFaults /\ [][NextFaults]_vars

(* ------------------------------------------------------------------ *)
(* The state machine of the returned tensor                            *)
(* ------------------------------------------------------------------ *)
(* Up to MaxCalls calls of every entry point and accessor on a         *)
(* regression and on a binary classification with the three            *)
(* combinations above, the caller keeping the pointer generate returns.*)

\* << bRegression, cTargetStates, cInnerBags >> of the initializations
AliasingInitializeArguments == { << TRUE, 0, 2 >>, << FALSE, 2, 0 >> }

InitAliasing ==
    \E a \in AliasingInitializeArguments :
        /\ pEbmTrainingState =
               FaultAllocateCore(a[1], a[2], NumTrainingCases, NumValidationCases, a[3])
        /\ k_iZeroResidual = 0 - 1
        /\ bExpandBinaryLogits = FALSE
        /\ bScoresGiven = FALSE
        /\ bTensorReturned = FALSE
        /\ calls = << >>

\* the learners of a generate call: the sets differ, or agree, or the last fails
AliasingLearners(cSamplingSets, cValues) ==
    { [i \in 1..cSamplingSets |->
          IF i = 1 THEN LearnerSucceeds(cValues, 0 - 2, 0 - 4)
          ELSE LearnerSucceeds(cValues, 4, 0 - 2)] }
        \cup StepFaultLearners(cSamplingSets, cValues)

NextAliasing ==
    \/ \E c \in Combinations, learningRate \in LearningRates :
         \E learners \in AliasingLearners(cSamplingSetsAfterZero, CombinationLength(c)) :
            GenerateUpdate(c, learningRate, learners, FALSE)
    \/ \E c \in Combinations : ApplyUpdate(c, Alternating(CombinationLength(c), 1), 0)
    \/ \E c \in Combinations : ApplyReturnedUpdate(c, 0)
    \/ \E c \in Combinations, learningRate \in LearningRates :
         \E learners \in StepFaultLearners(cSamplingSetsAfterZero, CombinationLength(c)) :
            Step(c, learningRate, learners, FALSE, 0)
    \/ \E c \in Combinations : GetCurrentModel(c)
    \/ \E c \in Combinations : GetBestModel(c)

SpecAliasing == InitAliasing /\ [][NextAliasing]_vars

(* ------------------------------------------------------------------ *)
(* The state machine from the initializers' arguments                  *)
(* ------------------------------------------------------------------ *)
(* InitializeTrainingRegression and InitializeTrainingClassification   *)
(* with the checks AllocateCore and Initialize make on the caller's    *)
(* arguments, as a build without assertions runs them (EBM_ASSERT is   *)
(* compiled out).  IntegerDataType arguments are integers; size_t has  *)
(* k_cBitsForStorageType bits.  Feature indexes count from 1 here and  *)
(* from 0 in the source.                                               *)

\* cases per data set in the bit-packing initializations
MaxPackCases == 9

\* std::numeric_limits<size_t>::max()
SizeMax == Pow2(k_cBitsForStorageType) - 1

\* IsNumberConvertable<size_t, IntegerDataType>(number)
IsNumberConvertable(number) == 0 <= number /\ number <= SizeMax

\* IsMultiplyError(num1, num2): the product does not fit size_t
IsMultiplyError(num1, num2) == num1 * num2 > SizeMax

\* the null handle an initializer returns on failure
nullptr == << >>

\* a countBins of the features does not fit
FeaturesError(features) ==
    \E iFeature \in 1..Len(features) : ~IsNumberConvertable(features[iFeature].countBins)

\* cTensorStates *= cStates over the significant features, up to the first
\* product that does not fit
RECURSIVE TensorStatesError(_, _)
TensorStatesError(acStates, cTensorStates) ==
    IF Len(acStates) = 0 THEN FALSE
    ELSE IF 1 < Head(acStates)
    THEN \/ IsMultiplyError(cTensorStates, Head(acStates))
         \/ TensorStatesError(Tail(acStates), cTensorStates * Head(acStates))
    ELSE TensorStatesError(Tail(acStates), cTensorStates)

\* Initialize returns true for a combination: an index that does not fit,
\* more than k_cDimensionsMax significant features, or a tensor too large
FeatureCombinationError(aFeatures, indexes) ==
    \/ \E k \in 1..Len(indexes) : ~IsNumberConvertable(indexes[k] - 1)
    \/ k_cDimensionsMax < Len(SignificantFeatures(aFeatures, indexes))
    \/ TensorStatesError([k \in 1..Len(indexes) |-> aFeatures[indexes[k]].m_cStates], 1)

\* Initialize returns true for one of the combinations, each reading its
\* indexes where the one before stopped
RECURSIVE FeatureCombinationsError(_, _, _)
FeatureCombinationsError(aFeatures, aFeatureCombinations, featureCombinationIndexes) ==
    IF Len(aFeatureCombinations) = 0 THEN FALSE
    ELSE \/ ~IsNumberConvertable(Head(aFeatureCombinations))
         \/ FeatureCombinationError(
                aFeatures, SubSeq(featureCombinationIndexes, 1, Head(aFeatureCombinations)))
         \/ FeatureCombinationsError(
                aFeatures, Tail(aFeatureCombinations),
                SubSeq(featureCombinationIndexes, Head(aFeatureCombinations) + 1,
                       Len(featureCombinationIndexes)))

\* AllocateCore returns nullptr before constructing the state
AllocateCoreError(a) ==
    \/ ~IsNumberConvertable(a.countFeatures)
    \/ ~IsNumberConvertable(a.countFeatureCombinations)
    \/ ~IsNumberConvertable(a.countTargetStates)
    \/ ~IsNumberConvertable(a.countTrainingCases)
    \/ ~IsNumberConvertable(a.countValidationCases)
    \/ ~IsNumberConvertable(a.countInnerBags)
    \/ IsMultiplyError(GetVectorLengthFlatCore(a.countTargetStates), a.countTrainingCases)
    \/ IsMultiplyError(GetVectorLengthFlatCore(a.countTargetStates), a.countValidationCases)

\* the Feature array Initialize builds from the caller's features
InitializeFeatures(a) ==
    [iFeature \in 1..a.countFeatures |-> [m_cStates |-> a.features[iFeature].countBins]]

\* Initialize returns true on the caller's arguments
InitializeError(a) ==
    \/ FeaturesError(SubSeq(a.features, 1, a.countFeatures))
    \/ FeatureCombinationsError(InitializeFeatures(a),
           SubSeq(a.featureCombinations, 1, a.countFeatureCombinations),
           a.featureCombinationIndexes)

\* The handle InitializeTrainingRegression or InitializeTrainingClassification
\* returns for the arguments a: nullptr or the training state.
InitializeTraining(a, iZeroResidual) ==
    IF AllocateCoreError(a) THEN nullptr
    ELSE IF InitializeError(a) THEN nullptr
    ELSE Initialize(a.bRegression, iZeroResidual, a.countTargetStates,
             InitializeFeatures(a),
             SubSeq(a.featureCombinations, 1, a.countFeatureCombinations),
             a.featureCombinationIndexes,
             a.countTrainingCases, a.trainingData, a.trainingTargets,
             a.countValidationCases, a.validationData, a.validationTargets,
             FALSE, a.countInnerBags)

\* a bin of a feature of cStates states
CallerBin(cStates, n) == IF 1 < cStates THEN n % cStates ELSE 0

\* a target: a real number for regression, a class for classification
CallerTarget(bRegression, countTargetStates, iCase) ==
    IF bRegression THEN RegressionTrainingTarget(iCase)
    ELSE IF 0 < countTargetStates THEN iCase % countTargetStates
    ELSE 0

\* The arguments of an initializer call: features of acStates states,
\* combinations of aCounts features named by aIndexes, and cCases training
\* and validation cases whose bins step by iBinStep from iFirstBin.
InitializeCall(bRegression, countTargetStates, acStates, aCounts, aIndexes, cCases, countInnerBags, iFirstBin, iBinStep) ==
    [bRegression |-> bRegression,
     countFeatures |-> Len(acStates),
     features |-> [iFeature \in 1..Len(acStates) |-> [countBins |-> acStates[iFeature]]],
     countFeatureCombinations |-> Len(aCounts),
     featureCombinations |-> aCounts,
     featureCombinationIndexes |-> aIndexes,
     countTargetStates |-> countTargetStates,
     countTrainingCases |-> cCases,
     trainingTargets |->
         [iCase \in 0..(cCases - 1) |-> CallerTarget(bRegression, countTargetStates, iCase)],
     trainingData |->
         [iFeature \in 1..Len(acStates), iCase \in 0..(cCases - 1) |->
             CallerBin(acStates[iFeature], iFirstBin + iBinStep * iCase + iFeature - 1)],
     countValidationCases |-> cCases,
     validationTargets |->
         [iCase \in 0..(cCases - 1) |-> CallerTarget(bRegression, countTargetStates, iCase + 1)],
     validationData |->
         [iFeature \in 1..Len(acStates), iCase \in 0..(cCases - 1) |->
             CallerBin(acStates[iFeature], iFirstBin + 1 + iBinStep * iCase + iFeature)],
     countInnerBags |-> countInnerBags]

\* state counts of the feature in the bit-packing initializations: 8, 4, 4,
\* 2 and 1 items per storage word
PackFeatureStates == { 2, 3, 4, 16, 17 }

\* regressions on one feature, over first bins, bin steps and case counts
PackCalls ==
    UNION { { InitializeCall(TRUE, 0, << cStates >>, << 1 >>, << 1 >>, cCases, 0,
                             iFirstBin, iBinStep) :
                 cCases \in 1..MaxPackCases, iFirstBin \in 0..(cStates - 1),
                 iBinStep \in { 1, cStates - 1 } } :
            cStates \in PackFeatureStates }

\* binary and three-class classifications on one feature, over case counts
ClassificationPackCalls ==
    { InitializeCall(FALSE, countTargetStates, << cStates >>, << 1 >>, << 1 >>, cCases, 0, 0, 1) :
        countTargetStates \in { 2, 3 }, cStates \in PackFeatureStates,
        cCases \in 1..MaxPackCases }

\* a regression and a classification with three combinations
BaseCalls ==
    { InitializeCall(TRUE, 0, << 3, 1, 2 >>, << 0, 2, 2 >>, << 1, 2, 1, 3 >>, 2, 0, 0, 1),
      InitializeCall(FALSE, 3, << 3, 1, 2 >>, << 0, 2, 2 >>, << 1, 2, 1, 3 >>, 2, 2, 0, 1) }

CountFields ==
    { "countFeatures", "countFeatureCombinations", "countTargetStates",
      "countTrainingCases", "countValidationCases", "countInnerBags" }

\* one count negative or past SizeMax (a regression has no target state count)
UnconvertableCountCalls ==
    { [a EXCEPT ![field] = count] :
        a \in BaseCalls, field \in CountFields \ { "countTargetStates" },
        count \in { 0 - 1, SizeMax + 1 } }
    \cup { InitializeCall(FALSE, count, << 3 >>, << 1 >>, << 1 >>, 2, 0, 0, 1) :
             count \in { 0 - 1, SizeMax + 1 } }

\* a countBins, a countFeaturesInCombination or a feature index that does
\* not fit (index 0 here is -1 in the source)
UnconvertableArrayCalls ==
    { InitializeCall(TRUE, 0, << 0 - 1 >>, << 1 >>, << 1 >>, 2, 0, 0, 1),
      InitializeCall(TRUE, 0, << 3 >>, << 0 - 1 >>, << >>, 2, 0, 0, 1),
      InitializeCall(TRUE, 0, << 3 >>, << 1 >>, << 0 >>, 2, 0, 0, 1) }

\* combinations at and past k_cDimensionsMax significant features, and
\* tensors of SizeMax and SizeMax + 1 cells
CombinationLimitCalls ==
    { InitializeCall(TRUE, 0, << 2, 2, 2 >>, << 3 >>, << 1, 2, 3 >>, 2, 0, 0, 1),
      InitializeCall(TRUE, 0, << 2, 1, 2 >>, << 3 >>, << 1, 2, 3 >>, 2, 0, 0, 1),
      InitializeCall(FALSE, 2, << 2, 2, 2 >>, << 1, 3 >>, << 1, 1, 2, 3 >>, 2, 0, 0, 1),
      InitializeCall(TRUE, 0, << 16, 16 >>, << 2 >>, << 1, 2 >>, 2, 0, 0, 1),
      InitializeCall(FALSE, 2, << 15, 17 >>, << 2 >>, << 1, 2 >>, 2, 0, 0, 1) }

\* classifications of zero and one target states, with and without data, and
\* a classification whose score buffer does not fit
TargetStateCalls ==
    { InitializeCall(FALSE, 0, << 3 >>, << 1 >>, << 1 >>, 2, 0, 0, 1),
      [InitializeCall(FALSE, 0, << 3 >>, << 1 >>, << 1 >>, 2, 0, 0, 1)
          EXCEPT !.countTrainingCases = 0],
      [InitializeCall(FALSE, 0, << 3 >>, << 1 >>, << 1 >>, 2, 0, 0, 1)
          EXCEPT !.countValidationCases = 0],
      InitializeCall(FALSE, 0, << 3 >>, << 1 >>, << 1 >>, 0, 0, 0, 1),
      InitializeCall(FALSE, 1, << 3 >>, << 1 >>, << 1 >>, 2, 0, 0, 1),
      InitializeCall(FALSE, 3, << 3 >>, << 1 >>, << 1 >>, 86, 0, 0, 1) }

\* combinations that name single-state features first, last, alone and
\* twice, and combinations after an empty one, over three index streams
ElisionCalls ==
    { InitializeCall(bRegression, countTargetStates, << 3, 1, 2, 1 >>, aCounts, aIndexes,
                     2, 0, 0, 1) :
        bRegression \in { TRUE }, countTargetStates \in { 0 },
        aCounts \in { << 1, 1, 2 >>, << 2, 0, 3 >>, << 3, 1, 0, 1 >>, << 0, 0, 4 >> },
        aIndexes \in { << 2, 3, 2, 1, 4 >>, << 4, 2, 1, 2, 3 >>, << 3, 4, 1, 4, 2 >> } }
    \cup { InitializeCall(FALSE, 3, << 3, 1, 2, 1 >>, << 2, 0, 3 >>, << 4, 2, 1, 2, 3 >>,
                          2, 0, 0, 1) }

InitializeCalls ==
    PackCalls \cup BaseCalls \cup UnconvertableCountCalls \cup UnconvertableArrayCalls
        \cup CombinationLimitCalls \cup TargetStateCalls \cup ElisionCalls
        \cup ClassificationPackCalls

\* before the initializer is called the caller holds no handle
InitInitialize ==
    /\ pEbmTrainingState = nullptr
    /\ k_iZeroResidual = 0 - 1
    /\ bExpandBinaryLogits = FALSE
    /\ bScoresGiven = FALSE
    /\ bTensorReturned = FALSE
    /\ calls = << >>

\* the initializer call: the caller keeps the handle it returns
InitializeTrainingCall(a) ==
    /\ calls = << >>
    /\ pEbmTrainingState' = InitializeTraining(a, k_iZeroResidual)
    /\ calls' = << [op |-> IF a.bRegression THEN "InitializeTrainingRegression"
                           ELSE "InitializeTrainingClassification",
                    arguments |-> a] >>
    /\ UNCHANGED << build, bTensorReturned >>

\* the update tensor whose cell for bin b holds b
ProbeTensor(cValues) == [i \in 1..cValues |-> Num(i - 1)]

NextInitialize ==
    \/ \E a \in InitializeCalls : InitializeTrainingCall(a)
    \/ /\ Len(calls) = 1
       /\ pEbmTrainingState # nullptr
       /\ pEbmTrainingState.m_bRegression
       /\ \E c \in Combinations : ApplyUpdate(c, ProbeTensor(CombinationLength(c)), 0)
    \/ /\ Len(calls) = 1
       /\ pEbmTrainingState # nullptr
       /\ ~pEbmTrainingState.m_bRegression
       /\ 2 <= pEbmTrainingState.m_cTargetStates
       /\ \E c \in Combinations : ApplyUpdate(c, Alternating(CombinationLength(c), 1), 0)

SpecInitialize == InitInitialize /\ [][NextInitialize]_vars

(* ------------------------------------------------------------------ *)
(* The state machine of the resources                                  *)
(* ------------------------------------------------------------------ *)
(* AllocateCore, the constructor, Initialize, the destructor and       *)
(* FreeTraining as they allocate and release memory.  A block is a     *)
(* pair << kind, number >>; a pointer is a block or nullptr.  A memory  *)
(* m is the object's members (es), the blocks allocated so far and the *)
(* blocks released so far, in order.  fail names the one allocation    *)
(* (or Expand) that fails, NoFailure if none does.  The data sets, the *)
(* sampling sets, the thread resources and a tensor are one block each.*)

\* combinations of the initializations with failures
MaxResourceCombinations == 3

NoFailure == << "none", 0 >>

\* malloc, new (std::nothrow) or an Allocate: the block, or nullptr if
\* this is the allocation that fails
Allocated(m, fail, block) ==
    IF fail = block THEN [m |-> m, p |-> nullptr]
    ELSE [m |-> [m EXCEPT !.allocated = Append(@, block)], p |-> block]

\* free, delete or a Free: nothing for nullptr
Released(m, p) == IF p = nullptr THEN m ELSE [m EXCEPT !.freed = Append(@, p)]

RECURSIVE ReleasedAll(_, _)
ReleasedAll(m, ps) ==
    IF Len(ps) = 0 THEN m ELSE ReleasedAll(Released(m, Head(ps)), Tail(ps))

\* DeleteSegmentedTensors: every tensor of the array, then the array
DeleteSegmentedTensors(m, apSegmentedRegions) ==
    IF apSegmentedRegions = nullptr THEN m
    ELSE Released(ReleasedAll(m, apSegmentedRegions.tensors), apSegmentedRegions.array)

\* The loop of InitializeSegmentedTensors from combination number i: the
\* tensor is stored in the array only after its Expand succeeded.
RECURSIVE SegmentedTensorLoop(_, _, _, _, _, _)
SegmentedTensorLoop(m, fail, kind, acDimensions, ap, i) ==
    LET WithExpand(t) ==
            IF t.p = nullptr THEN [m |-> DeleteSegmentedTensors(t.m, ap), p |-> nullptr]
            ELSE IF acDimensions[i] # 0 /\ fail = << kind \o "Expand", i >>
            THEN [m |-> DeleteSegmentedTensors(t.m, ap), p |-> nullptr]
            ELSE SegmentedTensorLoop(
                     t.m, fail, kind, acDimensions,
                     [ap EXCEPT !.tensors = [@ EXCEPT ![i] = t.p]], i + 1)
    IN IF i > Len(acDimensions) THEN [m |-> m, p |-> ap]
       ELSE WithExpand(Allocated(m, fail, << kind, i >>))

\* InitializeSegmentedTensors: the array, zeroed, then a tensor for each
\* combination; the array with its tensors, or nullptr
InitializeSegmentedTensorsMemory(m, fail, kind, acDimensions) ==
    LET WithLoop(t) ==
            IF t.p = nullptr THEN t
            ELSE SegmentedTensorLoop(
                     t.m, fail, kind, acDimensions,
                     [array |-> t.p, tensors |-> [i \in 1..Len(acDimensions) |-> nullptr]], 1)
    IN WithLoop(Allocated(m, fail, << kind \o "Array", 0 >>))

\* EbmTrainingState::EbmTrainingState: the members in the order of their
\* declaration; none of the allocations is checked here
Constructor(m, fail, a) ==
    LET WithMember(t, field) == [m |-> [t.m EXCEPT !.es = [@ EXCEPT ![field] = t.p]], p |-> t.p]
        WithCached(m4) ==
            WithMember(Allocated(m4, fail, << "m_cachedThreadResourcesUnion", 0 >>),
                   "m_cachedThreadResourcesUnion").m
        WithFeatures(m3) ==
            WithCached(IF a.cFeatures = 0 THEN m3
                   ELSE WithMember(Allocated(m3, fail, << "m_aFeatures", 0 >>), "m_aFeatures").m)
        WithAccumulated(m2) ==
            WithFeatures(WithMember(
                Allocated(m2, fail, << "m_pSmallChangeToModelAccumulatedFromSamplingSets", 0 >>),
                "m_pSmallChangeToModelAccumulatedFromSamplingSets").m)
        WithOverwrite(m1) ==
            WithAccumulated(WithMember(
                Allocated(m1, fail, << "m_pSmallChangeToModelOverwriteSingleSamplingSet", 0 >>),
                "m_pSmallChangeToModelOverwriteSingleSamplingSet").m)
    IN WithOverwrite(IF Len(a.acDimensions) = 0 THEN m
                 ELSE WithMember(Allocated(m, fail, << "m_apFeatureCombinations", 0 >>),
                             "m_apFeatureCombinations").m)

\* the combination loop of Initialize from combination number i: TRUE in
\* bError if an Allocate failed
RECURSIVE FeatureCombinationLoop(_, _, _, _)
FeatureCombinationLoop(m, fail, a, i) ==
    LET WithStored(t) ==
            IF t.p = nullptr THEN [m |-> t.m, bError |-> TRUE]
            ELSE FeatureCombinationLoop(
                     [t.m EXCEPT !.es.apFeatureCombinations[i] = t.p], fail, a, i + 1)
    IN IF i > Len(a.acDimensions) THEN [m |-> m, bError |-> FALSE]
       ELSE WithStored(Allocated(m, fail, << "FeatureCombination", i >>))

\* a data set: new fails, or the object is made and IsError() says whether
\* its own allocations failed; the member is assigned in either case
DataSetMemory(m, fail, field, cCases) ==
    LET WithMade(t) ==
            [m |-> [t.m EXCEPT !.es = [@ EXCEPT ![field] = t.p]],
             bError |-> t.p = nullptr \/ fail = << field \o "IsError", 0 >>]
    IN IF cCases = 0 THEN [m |-> m, bError |-> FALSE]
       ELSE WithMade(Allocated(m, fail, << field, 0 >>))

\* models are allocated for a regression and for a classification of two
\* or more target states, if there is a combination
HasModels(a) == Len(a.acDimensions) # 0 /\ (a.bRegression \/ 2 <= a.cTargetStates)

\* EbmTrainingState::Initialize: TRUE in bError where it returns true
InitializeMemory(m, fail, a) ==
    LET WithBest(t) ==
            [m |-> [t.m EXCEPT !.es.m_apBestModel = t.p], bError |-> t.p = nullptr]
        WithCurrent(t) ==
            IF t.p = nullptr THEN [m |-> t.m, bError |-> TRUE]
            ELSE WithBest(InitializeSegmentedTensorsMemory(
                          [t.m EXCEPT !.es.m_apCurrentModel = t.p], fail, "m_apBestModel",
                          a.acDimensions))
        WithModels(m5) ==
            IF ~HasModels(a) THEN [m |-> m5, bError |-> FALSE]
            ELSE WithCurrent(InitializeSegmentedTensorsMemory(
                             m5, fail, "m_apCurrentModel", a.acDimensions))
        WithSampled(t) ==
            IF t.p = nullptr THEN [m |-> t.m, bError |-> TRUE]
            ELSE WithModels([t.m EXCEPT !.es.m_apSamplingSets = t.p])
        WithSamplingSets(m4) ==
            IF a.cTrainingCases = 0 THEN WithModels(m4)
            ELSE WithSampled(Allocated(m4, fail, << "m_apSamplingSets", 0 >>))
        WithValidationSet(t) == IF t.bError THEN t ELSE WithSamplingSets(t.m)
        WithTrainingSet(t) ==
            IF t.bError THEN t
            ELSE WithValidationSet(DataSetMemory(t.m, fail, "m_pValidationSet", a.cValidationCases))
        WithCombinations(t) ==
            IF t.bError THEN t
            ELSE WithTrainingSet(DataSetMemory(t.m, fail, "m_pTrainingSet", a.cTrainingCases))
    IN IF \/ m.es.m_cachedThreadResourcesUnion = nullptr
          \/ a.cFeatures # 0 /\ m.es.m_aFeatures = nullptr
          \/ Len(a.acDimensions) # 0 /\ m.es.m_apFeatureCombinations = nullptr
          \/ m.es.m_pSmallChangeToModelOverwriteSingleSamplingSet = nullptr
          \/ m.es.m_pSmallChangeToModelAccumulatedFromSamplingSets = nullptr
       THEN [m |-> m, bError |-> TRUE]
       ELSE WithCombinations(FeatureCombinationLoop(m, fail, a, 1))

\* EbmTrainingState::~EbmTrainingState and the delete of the object
Destructor(m) ==
    LET WithModels(m6) ==
            Released(
                Released(
                    DeleteSegmentedTensors(
                        DeleteSegmentedTensors(m6, m6.es.m_apCurrentModel),
                        m6.es.m_apBestModel),
                    m6.es.m_pSmallChangeToModelOverwriteSingleSamplingSet),
                m6.es.m_pSmallChangeToModelAccumulatedFromSamplingSets)
        WithFeatures(m5) == WithModels(Released(m5, m5.es.m_aFeatures))
        WithAllCombinations(m4) ==
            WithFeatures(IF m4.es.m_apFeatureCombinations = nullptr THEN m4
                     ELSE Released(ReleasedAll(m4, m4.es.apFeatureCombinations),
                                   m4.es.m_apFeatureCombinations))
        WithValidationSet(m3) == WithAllCombinations(Released(m3, m3.es.m_pValidationSet))
        WithTrainingSet(m2) == WithValidationSet(Released(m2, m2.es.m_pTrainingSet))
        WithSamplingSets(m1) == WithTrainingSet(Released(m1, m1.es.m_apSamplingSets))
        WithObject(m7) == Released(m7, << "EbmTrainingState", 0 >>)
    IN WithObject(WithSamplingSets(Released(m, m.es.m_cachedThreadResourcesUnion)))

\* no block allocated, every member null
EmptyMemory(a) ==
    [es |-> [m_apFeatureCombinations |-> nullptr,
             apFeatureCombinations |-> [i \in 1..Len(a.acDimensions) |-> nullptr],
             m_pTrainingSet |-> nullptr,
             m_pValidationSet |-> nullptr,
             m_apSamplingSets |-> nullptr,
             m_apCurrentModel |-> nullptr,
             m_apBestModel |-> nullptr,
             m_pSmallChangeToModelOverwriteSingleSamplingSet |-> nullptr,
             m_pSmallChangeToModelAccumulatedFromSamplingSets |-> nullptr,
             m_aFeatures |-> nullptr,
             m_cachedThreadResourcesUnion |-> nullptr],
     allocated |-> << >>,
     freed |-> << >>]

\* AllocateCore from the new of the object: the handle returned (the
\* object's members, or nullptr) with the memory
AllocateCoreMemory(a, fail) ==
    LET AfterInitialize(t) ==
            IF t.bError THEN [ret |-> nullptr, m |-> Destructor(t.m)]
            ELSE [ret |-> t.m.es, m |-> t.m]
        AfterNew(t) ==
            IF t.p = nullptr THEN [ret |-> nullptr, m |-> t.m]
            ELSE AfterInitialize(InitializeMemory(Constructor(t.m, fail, a), fail, a))
    IN AfterNew(Allocated(EmptyMemory(a), fail, << "EbmTrainingState", 0 >>))
\* the dimensions of n combinations: 1, 2, 0, 1, ...
ResourceDimensions(n) == [i \in 1..n |-> i % 3]

\* what of the initializer's arguments decides the allocations
ResourceArguments ==
    { [bRegression |-> mode[1], cTargetStates |-> mode[2],
       cFeatures |-> IF n = 0 THEN 0 ELSE 2,
       acDimensions |-> ResourceDimensions(n),
       cTrainingCases |-> cTrainingCases, cValidationCases |-> cValidationCases] :
        mode \in { << TRUE, 0 >>, << FALSE, 1 >>, << FALSE, 2 >>, << FALSE, 3 >> },
        n \in 0..MaxResourceCombinations,
        cTrainingCases \in { 0, 2 }, cValidationCases \in { 0, 2 } }

\* the failures of a model array: the array, a tensor, the Expand of a
\* tensor with dimensions
ModelFailures(a, kind) ==
    { << kind \o "Array", 0 >> }
        \cup { << kind, i >> : i \in 1..Len(a.acDimensions) }
        \cup { << kind \o "Expand", i >> : i \in { j \in 1..Len(a.acDimensions) : a.acDimensions[j] # 0 } }

\* the allocations an initialization with the arguments a comes to if none
\* before fails
FailurePoints(a) ==
    { << "EbmTrainingState", 0 >>,
      << "m_pSmallChangeToModelOverwriteSingleSamplingSet", 0 >>,
      << "m_pSmallChangeToModelAccumulatedFromSamplingSets", 0 >>,
      << "m_cachedThreadResourcesUnion", 0 >> }
        \cup (IF a.cFeatures = 0 THEN {} ELSE { << "m_aFeatures", 0 >> })
        \cup (IF Len(a.acDimensions) = 0 THEN {}
              ELSE { << "m_apFeatureCombinations", 0 >> }
                       \cup { << "FeatureCombination", i >> : i \in 1..Len(a.acDimensions) })
        \cup (IF a.cTrainingCases = 0 THEN {}
              ELSE { << "m_pTrainingSet", 0 >>, << "m_pTrainingSetIsError", 0 >>,
                     << "m_apSamplingSets", 0 >> })
        \cup (IF a.cValidationCases = 0 THEN {}
              ELSE { << "m_pValidationSet", 0 >>, << "m_pValidationSetIsError", 0 >> })
        \cup (IF HasModels(a)
              THEN ModelFailures(a, "m_apCurrentModel") \cup ModelFailures(a, "m_apBestModel")
              ELSE {})

\* before the initializer is called nothing is allocated
InitResources ==
    /\ pEbmTrainingState = nullptr
    /\ k_iZeroResidual = 0 - 1
    /\ bExpandBinaryLogits = FALSE
    /\ bScoresGiven = FALSE
    /\ bTensorReturned = FALSE
    /\ calls = << >>

\* the initializer call with one failing allocation, or none
InitializeTrainingMemory(a, fail) ==
    LET Returned(r) ==
            /\ pEbmTrainingState' = r.ret
            /\ calls' = << [op |-> "InitializeTraining", arguments |-> a, fail |-> fail,
                            ret |-> r.ret, allocated |-> r.m.allocated,
                            freed |-> r.m.freed] >>
    IN /\ calls = << >>
       /\ Returned(AllocateCoreMemory(a, fail))
       /\ UNCHANGED << build, bTensorReturned >>

\* FreeTraining: delete of the object behind the handle
FreeTraining ==
    LET Deleted(m) ==
            /\ pEbmTrainingState' = nullptr
            /\ calls' = Append(calls,
                   [op |-> "FreeTraining", allocated |-> m.allocated, freed |-> m.freed])
    IN /\ Len(calls) = 1
       /\ pEbmTrainingState # nullptr
       /\ Deleted(Destructor([es |-> pEbmTrainingState, allocated |-> calls[1].allocated,
                              freed |-> calls[1].freed]))
       /\ UNCHANGED << build, bTensorReturned >>

NextResources ==
    \/ \E a \in ResourceArguments :
          \E fail \in FailurePoints(a) \cup { NoFailure } : InitializeTrainingMemory(a, fail)
    \/ FreeTraining

SpecResources == InitResources /\ [][NextResources]_vars

(* ------------------------------------------------------------------ *)
(* The state machine of the model arrays                               *)
(* ------------------------------------------------------------------ *)
(* The entry points with failures, from the states above and from      *)
(* states without a feature combination.                               *)

\* initializations without a feature combination: a regression, a binary
\* classification and a classification of one target state
NoCombinationCalls ==
    { InitializeCall(mode[1], mode[2], << NumFeatureStates, 2 >>, << >>, << >>,
                     NumValidationCases, 0, 0, 1) :
        mode \in { << TRUE, 0 >>, << FALSE, 2 >>, << FALSE, 1 >> } }

InitModels ==
    \/ InitFaults
    \/ \E a \in NoCombinationCalls :
          /\ pEbmTrainingState = InitializeTraining(a, 0 - 1)
          /\ k_iZeroResidual = 0 - 1
          /\ bExpandBinaryLogits = FALSE
          /\ bScoresGiven = FALSE
          /\ bTensorReturned = FALSE
          /\ calls = << >>

SpecModels == InitModels /\ [][NextFaults]_vars

(* ------------------------------------------------------------------ *)
(* Properties: vocabulary                                              *)
(* ------------------------------------------------------------------ *)

\* the state after call number i
StateAfter(i) == IF i = Len(calls) THEN pEbmTrainingState ELSE calls[i + 1].before

\* the apply_update calls
Applies == { i \in 1..Len(calls) : calls[i].op = "ApplyModelFeatureCombinationUpdate" }

\* the calls that ran the passes of an apply: an apply_update or a
\* training step working on a non-null update tensor
Passes ==
    { i \in 1..Len(calls) :
        /\ calls[i].op # "GenerateModelFeatureCombinationUpdate"
        /\ calls[i].modelUpdateTensor # << >> }

HasTrainingSet == pEbmTrainingState.m_pTrainingSet.m_cCases # 0
HasValidationSet == pEbmTrainingState.m_pValidationSet.m_cCases # 0

\* a < b and a <= b on metrics, NaN comparing false
MetricBelow(a, b) == a.k = "num" /\ (b.k = "inf" \/ (b.k = "num" /\ a.v < b.v))
MetricAtMost(a, b) == (a.k \in {"num", "inf"} /\ a = b) \/ MetricBelow(a, b)

Largest(S) == CHOOSE x \in S : \A y \in S : y <= x

\* the calls whose computed validation metric was strictly below best_metric
Improving ==
    { i \in Passes :
        MetricBelow(calls[i].validationMetricReturn, calls[i].before.m_bestModelMetric) }

\* the calls that lowered best_metric
Lowering ==
    { i \in 1..Len(calls) :
        MetricBelow(StateAfter(i).m_bestModelMetric, calls[i].before.m_bestModelMetric) }

InitialState == IF Len(calls) = 0 THEN pEbmTrainingState ELSE calls[1].before

IsFinite(aValues) == \A k \in 1..Len(aValues) : aValues[k].k = "num"
IsAllZero(aValues) == \A k \in 1..Len(aValues) : aValues[k] = [k |-> "num", v |-> 0]

(* ------------------------------------------------------------------ *)
(* C1                                                                  *)
(* ------------------------------------------------------------------ *)

C2_BestMetricNeverIncreases ==
    /\ InitialState.m_bestModelMetric = [k |-> "inf", v |-> 0]
    /\ \A i \in 1..Len(calls) :
         MetricAtMost(StateAfter(i).m_bestModelMetric, calls[i].before.m_bestModelMetric)

\* best_metric lowered twice, with a generate call and a non-improving pass around
C2_Witness ==
    /\ Len(calls) = MaxCalls
    /\ \E i \in Lowering, j \in Lowering : i < j
    /\ \E i \in 1..Len(calls) : i \notin Lowering

(* ------------------------------------------------------------------ *)
(* C3                                                                  *)
(* ------------------------------------------------------------------ *)

\* C3 as stated: after any apply_update call, best_metric is at most every
\* metric the apply calls have reported, and equals the least of them only
\* if some apply strictly improved best_metric.
C3_AsStated ==
    (Len(calls) > 0 /\ Len(calls) \in Applies) =>
        LET best == pEbmTrainingState.m_bestModelMetric
            M == { calls[i].validationMetricReturn : i \in Applies }
        IN /\ \A m \in M : MetricAtMost(best, m)
           /\ best \in M => \E i \in Applies : i \in Lowering

\* C3: on a state with a validation set, after any apply of a non-null
\* update, best_metric is at most every non-NaN metric such applies have
\* computed, and equals one of them only if some apply strictly improved
\* best_metric.
C3_BestMetricAtMostPassMetrics ==
    (HasValidationSet /\ Len(calls) > 0 /\ Len(calls) \in Passes) =>
        LET best == pEbmTrainingState.m_bestModelMetric
            M == { calls[i].validationMetricReturn : i \in Passes }
        IN /\ \A m \in M : m.k = "num" => MetricAtMost(best, m)
           /\ best \in M => \E i \in Passes : i \in Lowering

\* three passes with different metrics, the last one above best_metric
C3_Witness ==
    /\ HasValidationSet
    /\ Passes = 1..MaxCalls
    /\ Len(calls) \notin Lowering
    /\ MetricBelow(pEbmTrainingState.m_bestModelMetric, calls[Len(calls)].validationMetricReturn)
    /\ calls[1].validationMetricReturn # calls[2].validationMetricReturn
    /\ 2 \in Lowering

(* ------------------------------------------------------------------ *)
(* C4                                                                  *)
(* ------------------------------------------------------------------ *)

\* C4: an apply whose validation metric equals best_metric, or is NaN,
\* changes neither best_metric nor any best_model tensor.
C4_TieOrNaNKeepsBest ==
    \A i \in Passes :
        LET m == calls[i].validationMetricReturn
        IN (m = calls[i].before.m_bestModelMetric \/ m.k = "nan") =>
              /\ StateAfter(i).m_bestModelMetric = calls[i].before.m_bestModelMetric
              /\ StateAfter(i).m_apBestModel = calls[i].before.m_apBestModel

\* a metric equal to best_metric reported for a model that differs from best_model
C4_Witness ==
    /\ Len(calls) \in Passes
    /\ calls[Len(calls)].validationMetricReturn = calls[Len(calls)].before.m_bestModelMetric
    /\ pEbmTrainingState.m_apCurrentModel # pEbmTrainingState.m_apBestModel

(* ------------------------------------------------------------------ *)
(* C5                                                                  *)
(* ------------------------------------------------------------------ *)

\* C5: with zero validation cases every apply_update reports metric 0 and
\* success, and no call changes best_metric (+infinity) or any best_model
\* tensor (all zeros).
C5_NoValidationSetNeverCommits ==
    ~HasValidationSet =>
        /\ \A i \in Applies :
             /\ calls[i].ret = 0
             /\ calls[i].validationMetricReturn = [k |-> "num", v |-> 0]
        /\ pEbmTrainingState.m_bestModelMetric = [k |-> "inf", v |-> 0]
        /\ \A c \in 1..Len(pEbmTrainingState.m_apBestModel) :
             IsAllZero(pEbmTrainingState.m_apBestModel[c].m_aValues)

\* no validation set; applies and a training step have moved current_model
C5_Witness ==
    /\ ~HasValidationSet /\ HasTrainingSet
    /\ Len(calls) = MaxCalls
    /\ \E i \in Applies : i \in Passes /\ ~IsAllZero(calls[i].modelUpdateTensor)
    /\ \E i \in Passes : calls[i].op = "TrainingStep"
    /\ \E c \in 1..Len(pEbmTrainingState.m_apCurrentModel) :
         ~IsAllZero(pEbmTrainingState.m_apCurrentModel[c].m_aValues)

(* ------------------------------------------------------------------ *)
(* C6                                                                  *)
(* ------------------------------------------------------------------ *)

\* the passes before call number i
PassesBefore(i) == { j \in Passes : j < i }

\* C6: an apply of an all-zero update tensor, to any combination in any
\* reachable state, leaves the training and validation scores and
\* residuals and every current_model and best_model tensor unchanged, and
\* reports the validation metric the previous apply reported.
C6_ZeroUpdateChangesNothing ==
    \A i \in Passes :
        IsAllZero(calls[i].modelUpdateTensor) =>
            /\ StateAfter(i).m_pTrainingSet = calls[i].before.m_pTrainingSet
            /\ StateAfter(i).m_pValidationSet = calls[i].before.m_pValidationSet
            /\ StateAfter(i).m_apCurrentModel = calls[i].before.m_apCurrentModel
            /\ StateAfter(i).m_apBestModel = calls[i].before.m_apBestModel
            /\ PassesBefore(i) # {} =>
                  calls[i].validationMetricReturn
                      = calls[Largest(PassesBefore(i))].validationMetricReturn

\* a zero update applied where both data sets exist and current_model has
\* moved away from best_model
C6_Witness ==
    /\ HasTrainingSet /\ HasValidationSet
    /\ Len(calls) \in Applies
    /\ Len(calls) \in Passes
    /\ IsAllZero(calls[Len(calls)].modelUpdateTensor)
    /\ PassesBefore(Len(calls)) # {}
    /\ calls[Len(calls)].before.m_apCurrentModel # calls[Len(calls)].before.m_apBestModel
    /\ calls[Len(calls)].validationMetricReturn.k = "num"

(* ------------------------------------------------------------------ *)
(* C7                                                                  *)
(* ------------------------------------------------------------------ *)

\* -U, value by value
Negated(aValues) ==
    [k \in 1..Len(aValues) |->
        IF aValues[k].k = "num" THEN [k |-> "num", v |-> 0 - aValues[k].v] ELSE aValues[k]]

\* call i applies U to a combination and call i + 1 applies -U to it
IsApplyThenRevert(i) ==
    /\ i \in Applies /\ i + 1 \in Applies
    /\ i \in Passes /\ i + 1 \in Passes
    /\ calls[i + 1].indexFeatureCombination = calls[i].indexFeatureCombination
    /\ calls[i + 1].modelUpdateTensor = Negated(calls[i].modelUpdateTensor)

\* call i having applied U and call i + 1 having applied -U, the model of
\* the combination (and the regression residuals) are as before call i
IsRestored(i) ==
    LET c == calls[i].indexFeatureCombination
        was == calls[i].before
        now == StateAfter(i + 1)
    IN /\ now.m_apCurrentModel[c] = was.m_apCurrentModel[c]
       /\ was.m_bRegression =>
             /\ now.m_pTrainingSet.m_aResidualErrors = was.m_pTrainingSet.m_aResidualErrors
             /\ now.m_pValidationSet.m_aResidualErrors = was.m_pValidationSet.m_aResidualErrors

\* C7 as stated: for any update tensor U and combination c, apply(c, U)
\* followed by apply(c, -U) restores current_model[c] and, in regression,
\* every training and validation residual.
C7_AsStated ==
    \A i \in 1..Len(calls) : IsApplyThenRevert(i) => IsRestored(i)

\* C7: for any update tensor U of finite values and combination c,
\* apply(c, U) followed by apply(c, -U) restores current_model[c] and, in
\* regression, every training and validation residual.
C7_FiniteUpdateThenNegationRestores ==
    \A i \in 1..Len(calls) :
        (IsApplyThenRevert(i) /\ IsFinite(calls[i].modelUpdateTensor)) => IsRestored(i)

\* regression with both data sets: a non-zero U applied to the combination
\* of the feature, then -U
C7_Witness ==
    /\ pEbmTrainingState.m_bRegression
    /\ HasTrainingSet /\ HasValidationSet
    /\ \E i \in 2..Len(calls) :
         /\ IsApplyThenRevert(i)
         /\ IsFinite(calls[i].modelUpdateTensor)
         /\ ~IsAllZero(calls[i].modelUpdateTensor)
         /\ Len(calls[i].modelUpdateTensor) > 1
         /\ StateAfter(i).m_pTrainingSet # calls[i].before.m_pTrainingSet
         /\ \E c \in 1..Len(calls[i].before.m_apCurrentModel) :
              ~IsAllZero(calls[i].before.m_apCurrentModel[c].m_aValues)

(* ------------------------------------------------------------------ *)
(* C8, C9, C10: the training set against the model                     *)
(* ------------------------------------------------------------------ *)

TrainingCases == 0..(pEbmTrainingState.m_pTrainingSet.m_cCases - 1)

\* bin_c(case): the cell of combination c the training case falls in
TrainingBin(c, iCase) ==
    TensorBin(pEbmTrainingState.m_aFeatures,
              pEbmTrainingState.m_apFeatureCombinations[c].m_FeatureCombinationEntry,
              [f \in 1..Len(Features), i \in TrainingCases |-> TrainingData(f, i)], iCase)

\* the sum over all combinations c of current_model[c] at the case's bin
ModelSum(iCase, iVector) ==
    FSum([c \in 1..pEbmTrainingState.m_cFeatureCombinations |->
            pEbmTrainingState.m_apCurrentModel[c].m_aValues[
                TrainingBin(c, iCase) * cVectorLength + iVector + 1]])

\* the prediction score the initializer was handed for the case
InitialTrainingScore(iCase, iVector) ==
    [k |-> "num", v |-> PredictionScore(bScoresGiven, iCase, iVector)]

TrainingResidual(iCase, iVector) ==
    pEbmTrainingState.m_pTrainingSet.m_aResidualErrors[iCase * cVectorLength + iVector + 1]

TrainingScore(iCase, iVector) ==
    pEbmTrainingState.m_pTrainingSet.m_aPredictionScores[iCase * cVectorLength + iVector + 1]

\* passes with finite non-zero updates have run on both combinations
BothCombinationsUpdated ==
    \A c \in Combinations :
        \E i \in Passes :
            /\ calls[i].indexFeatureCombination = c
            /\ IsFinite(calls[i].modelUpdateTensor)
            /\ ~IsAllZero(calls[i].modelUpdateTensor)

\* C8 as stated: in regression, after every training-set pass, each
\* training residual equals target minus the sum over all combinations of
\* current_model at the case's bin.
C8_AsStated ==
    (pEbmTrainingState.m_bRegression /\ HasTrainingSet /\ Passes # {}) =>
        \A iCase \in TrainingCases :
            TrainingResidual(iCase, 0)
                = FSub([k |-> "num", v |-> RegressionTrainingTarget(iCase)], ModelSum(iCase, 0))

\* C8: in regression, after every training-set pass, each training residual
\* equals target minus the initial prediction score of the case minus the
\* sum over all combinations of current_model at the case's bin.
C8_RegressionResidualIsTargetMinusScore ==
    (pEbmTrainingState.m_bRegression /\ HasTrainingSet /\ Passes # {}) =>
        \A iCase \in TrainingCases :
            TrainingResidual(iCase, 0)
                = FSub(FSub([k |-> "num", v |-> RegressionTrainingTarget(iCase)],
                            InitialTrainingScore(iCase, 0)),
                       ModelSum(iCase, 0))

\* regression with initial scores given, both combinations updated
C8_Witness ==
    /\ pEbmTrainingState.m_bRegression /\ HasTrainingSet /\ bScoresGiven
    /\ BothCombinationsUpdated
    /\ \E iCase \in TrainingCases : InitialTrainingScore(iCase, 0).v # 0

\* C9 as stated: in binary classification, after every training-set pass,
\* each training score equals the sum over all combinations of
\* current_model at the case's bin, and the residual is target - sigma(score)
\* of that updated score.
C9_AsStated ==
    (~pEbmTrainingState.m_bRegression /\ pEbmTrainingState.m_cTargetStates = 2
        /\ HasTrainingSet /\ Passes # {}) =>
        \A iCase \in TrainingCases :
            /\ TrainingScore(iCase, 0) = ModelSum(iCase, 0)
            /\ TrainingResidual(iCase, 0)
                 = ComputeClassificationResidualErrorBinaryclass(
                       TrainingScore(iCase, 0), ClassificationTrainingTarget(iCase, 2))

\* C9: in binary classification, after every training-set pass, each
\* training score equals the initial prediction score of the case plus the
\* sum over all combinations of current_model at the case's bin, and the
\* residual is target - sigma(score) of that updated score.
C9_BinaryScoreAndResidual ==
    (~pEbmTrainingState.m_bRegression /\ pEbmTrainingState.m_cTargetStates = 2
        /\ HasTrainingSet /\ Passes # {}) =>
        \A iCase \in TrainingCases :
            /\ TrainingScore(iCase, 0) = FAdd(InitialTrainingScore(iCase, 0), ModelSum(iCase, 0))
            /\ TrainingResidual(iCase, 0)
                 = ComputeClassificationResidualErrorBinaryclass(
                       TrainingScore(iCase, 0), ClassificationTrainingTarget(iCase, 2))

\* binary classification with initial scores given, both combinations updated
C9_Witness ==
    /\ ~pEbmTrainingState.m_bRegression /\ pEbmTrainingState.m_cTargetStates = 2
    /\ HasTrainingSet /\ bScoresGiven
    /\ BothCombinationsUpdated
    /\ \E iCase \in TrainingCases : InitialTrainingScore(iCase, 0).v # 0

IsMulticlass == ~pEbmTrainingState.m_bRegression /\ pEbmTrainingState.m_cTargetStates > 2

\* the residual the kernel computes for class iVector from the case's scores
ExpectedMulticlassResidual(iCase, iVector) ==
    LET sumExp == FSum([j \in 1..cVectorLength |-> FExp(TrainingScore(iCase, j - 1))])
    IN ComputeClassificationResidualErrorMulticlass(
           sumExp, TrainingScore(iCase, iVector),
           ClassificationTrainingTarget(iCase, pEbmTrainingState.m_cTargetStates), iVector)

\* with zeroing at Z: slot Z of every case is 0 and the other slots hold the
\* residuals of the case's own scores; the walk of the last pass stopped
\* after K slots per case
ZeroedAtZ ==
    /\ \A iCase \in TrainingCases :
         \A iVector \in 0..(cVectorLength - 1) :
            TrainingResidual(iCase, iVector)
                = IF iVector = k_iZeroResidual THEN [k |-> "num", v |-> 0]
                  ELSE ExpectedMulticlassResidual(iCase, iVector)
    /\ LET i == Largest(Passes)
           c == calls[i].indexFeatureCombination
       IN TrainingSetWalk(FALSE, pEbmTrainingState.m_cTargetStates, k_iZeroResidual,
                          pEbmTrainingState.m_apFeatureCombinations[c],
                          calls[i].before.m_pTrainingSet, c,
                          calls[i].modelUpdateTensor).pResidualError
              = cVectorLength * pEbmTrainingState.m_pTrainingSet.m_cCases

\* the K residuals of the case are fractions of one denominator whose
\* numerators sum to 0
ResidualsSumToZero(iCase) ==
    LET r == [j \in 1..cVectorLength |-> TrainingResidual(iCase, j - 1)]
        n[j \in 0..cVectorLength] == IF j = 0 THEN 0 ELSE n[j - 1] + r[j].n
    IN /\ \A j \in 1..cVectorLength : r[j].k = "rat" /\ r[j].d = r[1].d
       /\ n[cVectorLength] = 0

\* C10 as stated: in multiclass mode, after every training-set pass, with
\* zeroing at Z the residual at Z of every case is 0, exactly K slots per
\* case were written and the zeroing hit the case just processed; with
\* zeroing disabled the K residuals of each case sum to 0.
C10_AsStated ==
    (IsMulticlass /\ HasTrainingSet /\ Passes # {}) =>
        IF 0 <= k_iZeroResidual THEN ZeroedAtZ
        ELSE \A iCase \in TrainingCases : ResidualsSumToZero(iCase)

\* C10: in multiclass mode, after every training-set pass, with zeroing at
\* Z the residual at Z of every case is 0, exactly K slots per case were
\* written and the zeroing hit the case just processed; with zeroing
\* disabled the K residuals of each case whose scores are not NaN sum to 0.
C10_MulticlassResiduals ==
    (IsMulticlass /\ HasTrainingSet /\ Passes # {}) =>
        IF 0 <= k_iZeroResidual THEN ZeroedAtZ
        ELSE \A iCase \in TrainingCases :
                (\A j \in 0..(cVectorLength - 1) : TrainingScore(iCase, j).k = "num")
                    => ResidualsSumToZero(iCase)

\* zeroing at a class that is not the last, both combinations updated
C10_Witness ==
    /\ IsMulticlass /\ HasTrainingSet
    /\ 0 <= k_iZeroResidual /\ k_iZeroResidual + 1 < cVectorLength
    /\ BothCombinationsUpdated
    /\ \A iCase \in TrainingCases : TrainingResidual(iCase, k_iZeroResidual + 1).k = "rat"

(* ------------------------------------------------------------------ *)
(* Properties of the calls with failures: vocabulary                   *)
(* ------------------------------------------------------------------ *)

Generates == { i \in 1..Len(calls) : calls[i].op = "GenerateModelFeatureCombinationUpdate" }
Steps == { i \in 1..Len(calls) : calls[i].op = "TrainingStep" }

\* a classification with at most one target state
IsDegenerate(es) == ~es.m_bRegression /\ es.m_cTargetStates <= 1

\* the combination call number i names, in the state the call found
CallCombination(i) == calls[i].before.m_apFeatureCombinations[calls[i].indexFeatureCombination]

\* S of call number i: inner_bags = 0 counts as one sampling set
CallSamplingSets(i) ==
    IF 0 = calls[i].before.m_cSamplingSets THEN 1 ELSE calls[i].before.m_cSamplingSets

\* the sampling sets the loop of call number i walked: none without training data
CallSets(i) == IF calls[i].before.m_apSamplingSets THEN 1..CallSamplingSets(i) ELSE {}

RECURSIVE SumOver(_, _)
SumOver(f, S) ==
    IF S = {} THEN 0
    ELSE LET x == CHOOSE x \in S : TRUE IN f[x] + SumOver(f, S \ {x})

(* ------------------------------------------------------------------ *)
(* C12                                                                 *)
(* ------------------------------------------------------------------ *)

\* C12: whenever generate_update returns a null tensor (a learner, an Add or
\* the Expand failed, or the classification is degenerate) gain_out holds
\* exactly 0; a non-zero gain_out comes only with a non-null tensor.
C12_NullReturnHasZeroGain ==
    \A i \in Generates :
        calls[i].modelUpdateTensor = << >> => calls[i].gainReturn = 0

\* a generate call over two sampling sets on a one-dimensional combination
\* whose first learner reported a non-zero gain and whose last Add failed
C12_Witness ==
    \E i \in Generates :
        /\ calls[i].modelUpdateTensor = << >>
        /\ ~IsDegenerate(calls[i].before)
        /\ CallCombination(i).m_cFeatures = 1
        /\ Len(calls[i].learners) = 2
        /\ calls[i].learners[1].gain # 0
        /\ ~calls[i].learners[1].bError
        /\ calls[i].learners[2].bAddError

(* ------------------------------------------------------------------ *)
(* C13                                                                 *)
(* ------------------------------------------------------------------ *)

\* the calls of generate_update that returned a tensor on a state with
\* training data
GeneratedFromTrainingData ==
    { i \in Generates :
        calls[i].modelUpdateTensor # << >> /\ calls[i].before.m_apSamplingSets }

\* binary classification with binary-logit expansion on
IsHalved(es) == bExpandBinaryLogits /\ ~es.m_bRegression /\ es.m_cTargetStates = 2

\* C13: when generate_update succeeds on a state with training data and S
\* sampling sets, every cell of the returned update is the sum over the
\* sampling sets of the learner's update for the cell, times eta / S, and
\* times eta / (2 S) exactly for binary classification with binary-logit
\* expansion on.  (Stated without division: cell * S * d = eta * sum.)
C13_UpdateIsScaledSum ==
    \A i \in GeneratedFromTrainingData :
        \A k \in 1..Len(calls[i].modelUpdateTensor) :
            calls[i].modelUpdateTensor[k].v
                * CallSamplingSets(i) * (IF IsHalved(calls[i].before) THEN 2 ELSE 1)
            = calls[i].learningRate
                * SumOver([s \in 1..CallSamplingSets(i) |-> calls[i].learners[s].aValues[k].v],
                          1..CallSamplingSets(i))

\* a successful generate call over two sampling sets with different learner
\* updates, on a binary classification with the expansion on
C13_Witness ==
    \E i \in GeneratedFromTrainingData :
        /\ IsHalved(calls[i].before)
        /\ CallSamplingSets(i) = 2
        /\ calls[i].learners[1].aValues # calls[i].learners[2].aValues
        /\ calls[i].modelUpdateTensor[1].v # 0

(* ------------------------------------------------------------------ *)
(* C14                                                                 *)
(* ------------------------------------------------------------------ *)

\* the calls of generate_update that returned a tensor
Generated == { i \in Generates : calls[i].modelUpdateTensor # << >> }

\* C14: on success gain_out equals the sum over the sampling sets of the
\* gain of the learner dispatched for the set, only the zero-dimensional
\* learner contributing 0, divided by the number of sampling sets S.
\* (Stated without division: gain_out * S = sum.)
C14_AsStated ==
    \A i \in Generated :
        calls[i].gainReturn * CallSamplingSets(i)
        = SumOver([s \in 1..CallSamplingSets(i) |->
                      IF CallCombination(i).m_cFeatures = 0 THEN 0
                      ELSE calls[i].learners[s].gain],
                  CallSets(i))

(* ------------------------------------------------------------------ *)
(* C15                                                                 *)
(* ------------------------------------------------------------------ *)

\* the generate calls on a non-degenerate state without training data
GeneratesWithoutTrainingData ==
    { i \in Generates :
        ~IsDegenerate(calls[i].before) /\ ~calls[i].before.m_apSamplingSets }

\* the Expand of generate call number i failed
ExpandFailed(i) == calls[i].bExpandError /\ CallCombination(i).m_cFeatures # 0

\* generate call number i ran no learner and returned a buffer of zeros
ReturnsZerosUntrained(i) ==
    /\ calls[i].modelUpdateTensor # << >>
    /\ IsAllZero(calls[i].modelUpdateTensor)
    /\ calls[i].gainReturn = 0
    /\ StateAfter(i).m_pSmallChangeToModelOverwriteSingleSamplingSet
         = calls[i].before.m_pSmallChangeToModelOverwriteSingleSamplingSet

\* call number i + 1 applies to the same combination the tensor call
\* number i returned
AppliesReturnOf(i) ==
    /\ i + 1 \in Applies
    /\ calls[i + 1].indexFeatureCombination = calls[i].indexFeatureCombination
    /\ calls[i + 1].modelUpdateTensor = calls[i].modelUpdateTensor

\* the apply after generate call number i changed no model value
ModelsKept(i) ==
    /\ StateAfter(i + 1).m_apCurrentModel = calls[i + 1].before.m_apCurrentModel
    /\ StateAfter(i + 1).m_apBestModel = calls[i + 1].before.m_apBestModel

\* C15 as stated: with an empty training set, generate_update on a
\* non-degenerate state calls no tree learner and returns the accumulator's
\* value buffer holding only zeros, with gain_out = 0; applying that result
\* changes no model value.
C15_AsStated ==
    \A i \in GeneratesWithoutTrainingData :
        /\ ReturnsZerosUntrained(i)
        /\ AppliesReturnOf(i) => ModelsKept(i)

\* C15: with an empty training set, generate_update on a non-degenerate
\* state calls no tree learner and, unless the Expand of the accumulator
\* fails, returns the accumulator's value buffer holding only zeros, with
\* gain_out = 0; applying that result changes no model value.  When the
\* Expand fails the return is null with gain_out = 0.
C15_EmptyTrainingSetReturnsZeros ==
    \A i \in GeneratesWithoutTrainingData :
        /\ ~ExpandFailed(i) => ReturnsZerosUntrained(i)
        /\ ExpandFailed(i) => calls[i].modelUpdateTensor = << >> /\ calls[i].gainReturn = 0
        /\ AppliesReturnOf(i) => ModelsKept(i)

\* a generate call without training data, handed a learner that would fail,
\* on a combination with dimensions, and then the apply of what it returned
C15_Witness ==
    \E i \in GeneratesWithoutTrainingData :
        /\ calls[i].learners[1].bError
        /\ CallCombination(i).m_cFeatures # 0
        /\ calls[i].modelUpdateTensor # << >>
        /\ AppliesReturnOf(i)
        /\ calls[i + 1].ret = 0
        /\ HasValidationSet

(* ------------------------------------------------------------------ *)
(* C16                                                                 *)
(* ------------------------------------------------------------------ *)

\* what call number i returned is what a degenerate classification returns
DegenerateReturn(i) ==
    IF calls[i].op = "GenerateModelFeatureCombinationUpdate"
    THEN calls[i].modelUpdateTensor = << >> /\ calls[i].gainReturn = 0
    ELSE IF calls[i].op \in {"ApplyModelFeatureCombinationUpdate", "TrainingStep"}
    THEN calls[i].ret = 0 /\ calls[i].validationMetricReturn = Num(0)
    ELSE calls[i].ret = << >>

\* C16: on a classification state with target_state_count <= 1,
\* generate_update returns null with gain_out = 0, apply_update (with any
\* update tensor) and training_step return status 0 with
\* validation_metric_out = 0, get_current_model and get_best_model return
\* null, and none of these calls changes the training state.
C16_DegenerateClassification ==
    \A i \in 1..Len(calls) :
        IsDegenerate(calls[i].before) =>
            DegenerateReturn(i) /\ StateAfter(i) = calls[i].before

\* a one-class classification with data: a training step whose learner
\* would fail, then an apply of a non-zero tensor
C16_Witness ==
    /\ Len(calls) = 2
    /\ IsDegenerate(calls[1].before)
    /\ calls[1].before.m_cTargetStates = 1
    /\ HasTrainingSet /\ HasValidationSet
    /\ calls[1].op = "TrainingStep"
    /\ calls[1].learners[1].bError
    /\ calls[2].op = "ApplyModelFeatureCombinationUpdate"
    /\ calls[2].modelUpdateTensor # << >>
    /\ ~IsAllZero(calls[2].modelUpdateTensor)

(* ------------------------------------------------------------------ *)
(* C17                                                                 *)
(* ------------------------------------------------------------------ *)

\* the training steps on a non-degenerate state whose generation succeeded
StepsGenerated ==
    { i \in Steps : ~IsDegenerate(calls[i].before) /\ calls[i].modelUpdateTensor # << >> }

\* training step number i left the state, the status and the metric that
\* generate_update followed by apply_update of the returned tensor leave
StepMatches(i) ==
    LET Applied(generated, applied) ==
            /\ generated.aModelUpdateTensor = calls[i].modelUpdateTensor
            /\ StateAfter(i) = applied.state
            /\ calls[i].ret = applied.ret
            /\ calls[i].validationMetricReturn = applied.validationMetricReturn
        Generated1(generated) ==
            Applied(generated,
                    ApplyModelFeatureCombinationUpdate(
                        generated.state, k_iZeroResidual, calls[i].indexFeatureCombination,
                        generated.aModelUpdateTensor, calls[i].iCopyFailure))
    IN Generated1(GenerateModelFeatureCombinationUpdate(
                      calls[i].before, bExpandBinaryLogits, calls[i].indexFeatureCombination,
                      calls[i].learningRate, calls[i].learners, calls[i].bExpandError))

\* C17: on a non-degenerate state where update generation succeeds,
\* training_step(c, params) produces the same final training state, the
\* same status and the same validation_metric_out as generate_update(c,
\* params) followed by apply_update(c, the returned tensor).
C17_StepIsGenerateThenApply == \A i \in StepsGenerated : StepMatches(i)

\* a training step over two sampling sets on a state with both data sets,
\* after an earlier call, that lowered best_metric
C17_Witness ==
    \E i \in StepsGenerated :
        /\ i = 2
        /\ CallSamplingSets(i) = 2
        /\ HasTrainingSet /\ HasValidationSet
        /\ calls[i].ret = 0
        /\ i \in Lowering

(* ------------------------------------------------------------------ *)
(* C18                                                                 *)
(* ------------------------------------------------------------------ *)

\* the calls whose best-model commit met a failing Copy: the commit is
\* entered right after best_metric is lowered
CommitsWithCopyFailure == { i \in Lowering : calls[i].iCopyFailure # 0 }

\* C18: when the copy of a current_model tensor into best_model fails during
\* a best-model commit, apply_update returns status 1 and
\* validation_metric_out is set to 0.
C18_CopyFailureReturnsOne ==
    \A i \in CommitsWithCopyFailure :
        calls[i].ret = 1 /\ calls[i].validationMetricReturn = Num(0)

\* an apply_update of a non-zero tensor whose commit copied the first tensor
\* and failed at the second
C18_Witness ==
    \E i \in CommitsWithCopyFailure :
        /\ i \in Applies
        /\ ~IsAllZero(calls[i].modelUpdateTensor)
        /\ calls[i].indexFeatureCombination = 1
        /\ StateAfter(i).m_apBestModel[1] = StateAfter(i).m_apCurrentModel[1]
        /\ StateAfter(i).m_apBestModel[1] # calls[i].before.m_apBestModel[1]

(* ------------------------------------------------------------------ *)
(* C19                                                                 *)
(* ------------------------------------------------------------------ *)

\* the training steps on a non-degenerate state whose generation failed
StepsNotGenerated ==
    { i \in Steps : ~IsDegenerate(calls[i].before) /\ calls[i].modelUpdateTensor = << >> }

\* C19: when training_step fails because update generation fails on a
\* non-degenerate state, it returns failure status 1 and
\* validation_metric_out is set to 0.
C19_AsStated ==
    \A i \in StepsNotGenerated :
        calls[i].ret = 1 /\ calls[i].validationMetricReturn = Num(0)

(* ------------------------------------------------------------------ *)
(* C11                                                                 *)
(* ------------------------------------------------------------------ *)

\* the applies of the probe tensor to a combination with dimensions, after
\* the initializer call
ProbeApplies ==
    { i \in 2..Len(calls) :
        /\ calls[i].op = "ApplyModelFeatureCombinationUpdate"
        /\ calls[i].modelUpdateTensor = ProbeTensor(Len(calls[i].modelUpdateTensor))
        /\ CallCombination(i).m_cFeatures # 0 }

\* (word >> (B * j)) & ((1 << B) - 1)
WordBin(word, j, cBits) == (word \div Pow2(cBits * j)) % Pow2(cBits)

\* the bin the regression pass took for case number k: the probe holds b
\* in the cell of bin b and the pass subtracts the cell from the residual
BinTaken(pDataSetBefore, pDataSetAfter, k) ==
    pDataSetBefore.m_aResidualErrors[k + 1].v - pDataSetAfter.m_aResidualErrors[k + 1].v

\* the pass of call number i over a data set took, for every case, the bin
\* at the case's place in the packed words, which is the caller's bin
UnpacksInOrder(i, pDataSetBefore, pDataSetAfter, aData) ==
    LET c == calls[i].indexFeatureCombination
        P == CallCombination(i).m_cItemsPerBitPackDataUnit
        B == GetCountBits(P)
    IN \A k \in 0..(pDataSetBefore.m_cCases - 1) :
          /\ BinTaken(pDataSetBefore, pDataSetAfter, k)
               = WordBin(pDataSetBefore.m_aaInputData[c][(k \div P) + 1], k % P, B)
          /\ BinTaken(pDataSetBefore, pDataSetAfter, k)
               = TensorBin(calls[i].before.m_aFeatures,
                           CallCombination(i).m_FeatureCombinationEntry, aData, k)

\* C11: for a combination with P items per pack and B bits per item, the
\* training and validation passes assign to case number k (in original
\* case order) the bin (word[k div P] >> (B * (k mod P))) & ((1 << B) - 1),
\* low-order item first, reproducing the original unpacked bin sequence.
C11_PassesUnpackLowOrderFirst ==
    \A i \in ProbeApplies :
        /\ UnpacksInOrder(i, calls[i].before.m_pTrainingSet,
                          StateAfter(i).m_pTrainingSet, calls[1].arguments.trainingData)
        /\ UnpacksInOrder(i, calls[i].before.m_pValidationSet,
                          StateAfter(i).m_pValidationSet, calls[1].arguments.validationData)

\* a pass over nine cases at P = 4 and B = 2 whose first word is 0b11100100
\* and whose first four cases took the bins 0, 1, 2, 3; the ninth case is
\* alone in the third word
C11_Witness ==
    \E i \in ProbeApplies :
        /\ CallCombination(i).m_cItemsPerBitPackDataUnit = 4
        /\ calls[i].before.m_pTrainingSet.m_cCases = 9
        /\ calls[i].before.m_pTrainingSet.m_aaInputData[calls[i].indexFeatureCombination][1] = 228
        /\ \A k \in 0..3 :
              BinTaken(calls[i].before.m_pTrainingSet, StateAfter(i).m_pTrainingSet, k) = k

(* ------------------------------------------------------------------ *)
(* C20                                                                 *)
(* ------------------------------------------------------------------ *)

\* the initializer calls
Initializes ==
    { i \in 1..Len(calls) :
        calls[i].op \in {"InitializeTrainingRegression", "InitializeTrainingClassification"} }

\* a count, a countBins, a countFeaturesInCombination or a feature index of
\* the arguments does not fit size_t
HasUnconvertableCount(a) ==
    \/ \E field \in CountFields : ~IsNumberConvertable(a[field])
    \/ \E iFeature \in 1..Len(a.features) : ~IsNumberConvertable(a.features[iFeature].countBins)
    \/ \E k \in 1..Len(a.featureCombinations) : ~IsNumberConvertable(a.featureCombinations[k])
    \/ \E k \in 1..Len(a.featureCombinationIndexes) :
          ~IsNumberConvertable(a.featureCombinationIndexes[k] - 1)

\* a classification of no target state with training or validation data
HasNoTargetStateButData(a) ==
    /\ ~a.bRegression
    /\ a.countTargetStates = 0
    /\ (a.countTrainingCases # 0 \/ a.countValidationCases # 0)

\* a combination with more than D_MAX significant features, or one whose
\* tensor cell count overflows
HasCombinationPastLimits(a) ==
    /\ ~HasUnconvertableCount(a)
    /\ FeatureCombinationsError(InitializeFeatures(a), a.featureCombinations,
                                a.featureCombinationIndexes)

\* C20: initialization returns a null handle for each invalid-argument
\* case: a count that does not fit the platform size type, classification
\* with target_state_count = 0 and non-empty training or validation data, a
\* combination with more than D_MAX significant features, and
\* multiplicative overflow of a combination's tensor cell count.
C20_AsStated ==
    \A i \in Initializes :
        (\/ HasUnconvertableCount(calls[i].arguments)
         \/ HasNoTargetStateButData(calls[i].arguments)
         \/ HasCombinationPastLimits(calls[i].arguments))
            => StateAfter(i) = nullptr

(* ------------------------------------------------------------------ *)
(* C21                                                                 *)
(* ------------------------------------------------------------------ *)

\* the initializer calls that returned a handle
Initialized == { i \in Initializes : StateAfter(i) # nullptr }

\* the offset in the flat index stream of combination number c: the sum of
\* the declared feature counts of the combinations before it
StreamOffset(a, c) == SumOver(a.featureCombinations, 1..(c - 1))

\* the features combination number c references, as the caller listed them
Referenced(a, c) ==
    [k \in 1..a.featureCombinations[c] |-> a.featureCombinationIndexes[StreamOffset(a, c) + k]]

\* the places in the caller's list whose feature has more than one state
SignificantPlaces(a, c) ==
    { k \in 1..a.featureCombinations[c] : 1 < a.features[Referenced(a, c)[k]].countBins }

\* the entries are the referenced features of more than one state, each
\* once per place, in the order of their places
KeepsOrder(a, c, entries) ==
    \E place \in [1..Len(entries) -> SignificantPlaces(a, c)] :
        /\ \A j, k \in 1..Len(entries) : j < k => place[j] < place[k]
        /\ \A k \in 1..Len(entries) : entries[k] = Referenced(a, c)[place[k]]

\* C21: after successful initialization, each feature combination's
\* dimension count equals the number of its referenced features with
\* state_count > 1, its entries are exactly those features in their
\* original order, a combination referencing only features with
\* state_count <= 1 becomes zero-dimensional, and each combination reads
\* its feature indices from the flat index stream at the offset equal to the
\* sum of the preceding combinations' declared feature counts.
C21_CombinationsElideSingleStateFeatures ==
    \A i \in Initialized :
        LET a == calls[i].arguments
            es == StateAfter(i)
        IN /\ es.m_cFeatureCombinations = a.countFeatureCombinations
           /\ \A c \in 1..a.countFeatureCombinations :
                 /\ es.m_apFeatureCombinations[c].m_cFeatures
                      = Cardinality(SignificantPlaces(a, c))
                 /\ Len(es.m_apFeatureCombinations[c].m_FeatureCombinationEntry)
                      = Cardinality(SignificantPlaces(a, c))
                 /\ KeepsOrder(a, c, es.m_apFeatureCombinations[c].m_FeatureCombinationEntry)
                 /\ (SignificantPlaces(a, c) = {}
                        => es.m_apFeatureCombinations[c].m_cFeatures = 0)

\* a handle whose first combination references two single-state features
\* and became zero-dimensional, whose second is empty, and whose third reads
\* three indexes from offset 2 and keeps two of them in the caller's order
C21_Witness ==
    \E i \in Initialized :
        LET a == calls[i].arguments
            es == StateAfter(i)
        IN /\ a.featureCombinations = << 2, 0, 3 >>
           /\ a.featureCombinationIndexes = << 4, 2, 1, 2, 3 >>
           /\ es.m_apFeatureCombinations[1].m_cFeatures = 0
           /\ es.m_apFeatureCombinations[3].m_FeatureCombinationEntry = << 1, 3 >>

(* ------------------------------------------------------------------ *)
(* C22                                                                 *)
(* ------------------------------------------------------------------ *)

\* the number of times a block occurs in a sequence of blocks
Occurrences(blocks, block) == Cardinality({ k \in 1..Len(blocks) : blocks[k] = block })

\* every block allocated was released once, and nothing else was released
ReleasedExactlyOnce(allocated, freed) ==
    /\ \A k \in 1..Len(allocated) : Occurrences(freed, allocated[k]) = 1
    /\ \A k \in 1..Len(freed) : Occurrences(allocated, freed[k]) = 1

\* C22: for every point at which initialization can fail (state
\* allocation, features, combinations, training set, validation set,
\* sampling sets, current model array, best model array, or a tensor
\* allocate/expand part-way through a model array), the initializer returns
\* a null handle and every resource allocated up to that point is released
\* exactly once; after a successful initialization, free releases every
\* resource exactly once.
C22_AsStated ==
    \A i \in 1..Len(calls) :
        /\ (calls[i].op = "InitializeTraining" /\ calls[i].fail # NoFailure)
              => /\ calls[i].ret = nullptr
                 /\ ReleasedExactlyOnce(calls[i].allocated, calls[i].freed)
        /\ calls[i].op = "FreeTraining"
              => ReleasedExactlyOnce(calls[i].allocated, calls[i].freed)

(* ------------------------------------------------------------------ *)
(* C23                                                                 *)
(* ------------------------------------------------------------------ *)

\* what the accumulator scratch tensor of a state holds
Accumulator(es) == es.m_pSmallChangeToModelAccumulatedFromSamplingSets.m_aValues

\* the calls that produced an update tensor: generate calls that returned
\* one and training steps that generated one
Produced == Generated \cup { i \in Steps : calls[i].modelUpdateTensor # << >> }

\* the apply and accessor calls
Readers ==
    { i \in 1..Len(calls) :
        calls[i].op \in { "ApplyModelFeatureCombinationUpdate",
                          "GetCurrentModelFeatureCombination",
                          "GetBestModelFeatureCombination" } }

\* the last call before call number k that produced an update tensor
IsLastProducedBefore(j, k) ==
    /\ j \in Produced
    /\ j < k
    /\ \A h \in Generates \cup Steps : ~(j < h /\ h < k)

\* C23: the tensor returned by generate_update aliases the state's
\* accumulator scratch tensor: its contents stay unchanged across
\* apply_update, get_current_model and get_best_model calls, and are
\* overwritten by the next generate_update or training_step on the same
\* state (for any combination), so applying a previously returned tensor
\* after a later generate_update applies the later values.
C23_ReturnedTensorAliasesAccumulator ==
    /\ \A i \in Produced : Accumulator(StateAfter(i)) = calls[i].modelUpdateTensor
    /\ \A i \in Readers : Accumulator(StateAfter(i)) = Accumulator(calls[i].before)
    /\ \A k \in 1..Len(calls) : \A j \in 1..Len(calls) :
          IsLastProducedBefore(j, k) => Accumulator(calls[k].before) = calls[j].modelUpdateTensor

\* a generate call returned a tensor, a later generate call for the same
\* combination returned other values, and the apply after both found the
\* later values behind the pointer and added them to the current model
C23_Witness ==
    /\ Len(calls) = 3
    /\ 1 \in Generated /\ 2 \in Generated /\ 3 \in Applies
    /\ calls[1].indexFeatureCombination = calls[3].indexFeatureCombination
    /\ calls[2].indexFeatureCombination = calls[3].indexFeatureCombination
    /\ calls[1].modelUpdateTensor # calls[2].modelUpdateTensor
    /\ calls[3].modelUpdateTensor = calls[2].modelUpdateTensor
    /\ calls[3].modelUpdateTensor = Accumulator(calls[3].before)
    /\ ~IsAllZero(calls[3].modelUpdateTensor)
    /\ pEbmTrainingState.m_apCurrentModel[calls[3].indexFeatureCombination].m_aValues
         = calls[3].modelUpdateTensor

(* ------------------------------------------------------------------ *)
(* C24                                                                 *)
(* ------------------------------------------------------------------ *)

\* the tensors of a model array are expanded and hold a value for every
\* cell of their combination's grid
IsDense(es, apModel) ==
    \A c \in 1..es.m_cFeatureCombinations :
        /\ apModel[c].m_bExpanded
        /\ Len(apModel[c].m_aValues)
             = TensorLength(es.m_apFeatureCombinations[c],
                            GetVectorLengthFlatCore(es.m_cTargetStates))

\* C24: current and best model arrays are allocated exactly when the
\* combination count is > 0 and the mode is regression or classification
\* with K >= 2, and from successful initialization until free every
\* current_model and best_model tensor is in the expanded (dense over the
\* full bin grid) representation after any sequence of generate, apply and
\* training_step calls, including applies that commit a new best.
C24_ModelsAllocatedAndExpanded ==
    LET es == pEbmTrainingState
        bModels == /\ es.m_cFeatureCombinations > 0
                   /\ (es.m_bRegression \/ es.m_cTargetStates >= 2)
    IN /\ (es.m_apCurrentModel # << >>) = bModels
       /\ (es.m_apBestModel # << >>) = bModels
       /\ bModels => IsDense(es, es.m_apCurrentModel) /\ IsDense(es, es.m_apBestModel)

\* a generate call and then an apply that committed a new best: the best
\* model holds the update in every tensor's dense grid
C24_Witness ==
    /\ Len(calls) = 2
    /\ 1 \in Generated
    /\ 2 \in Lowering
    /\ calls[2].iCopyFailure = 0
    /\ pEbmTrainingState.m_apFeatureCombinations[calls[2].indexFeatureCombination].m_cFeatures = 2
    /\ ~IsAllZero(pEbmTrainingState.m_apBestModel[calls[2].indexFeatureCombination].m_aValues)
    /\ IsDense(pEbmTrainingState, pEbmTrainingState.m_apBestModel)

(* ------------------------------------------------------------------ *)
(* C25                                                                 *)
(* ------------------------------------------------------------------ *)

\* the applies, after the initializer call, that ran the passes over a
\* combination with dimensions
DimensionalPasses ==
    { i \in 2..Len(calls) :
        /\ calls[i].op = "ApplyModelFeatureCombinationUpdate"
        /\ calls[i].modelUpdateTensor # << >>
        /\ ~IsDegenerate(calls[i].before)
        /\ CallCombination(i).m_cFeatures # 0 }

\* ceil(N / P)
CeilDiv(N, P) == (N + P - 1) \div P

\* the walk st of a pass over N cases at P items per word went over every
\* case once, read ceil(N / P) words and entered the tail once at most, for
\* the items the full words left
WalkedOnce(st, p, N, P, cValuesPerCase) ==
    /\ p = cValuesPerCase * N
    /\ st.pInputData = CeilDiv(N, P)
    /\ st.cWordsRead = CeilDiv(N, P)
    /\ st.cTailEntries <= 1
    /\ st.cTailItems = N - P * (CeilDiv(N, P) - 1)

\* the training pass of call number i, walked again from the state the call found
TrainingWalkOf(i) ==
    TrainingSetWalk(calls[i].before.m_bRegression, calls[i].before.m_cTargetStates,
                    k_iZeroResidual, CallCombination(i), calls[i].before.m_pTrainingSet,
                    calls[i].indexFeatureCombination, calls[i].modelUpdateTensor)

\* the validation pass of call number i, walked again
ValidationWalkOf(i) ==
    ValidationSetWalk(calls[i].before.m_bRegression, calls[i].before.m_cTargetStates,
                      CallCombination(i), calls[i].before.m_pValidationSet,
                      calls[i].indexFeatureCombination, calls[i].modelUpdateTensor)

\* the walk is the pass the call made: the data set holds what it wrote
IsPassOf(st, pDataSetAfter) ==
    /\ pDataSetAfter.m_aResidualErrors = st.aResidualErrors
    /\ pDataSetAfter.m_aPredictionScores = st.aPredictionScores

\* C25: for every case count N >= 1 and items-per-pack P >= 1 (including
\* N < P and N an exact multiple of P), each training and validation pass
\* over a combination with at least one dimension terminates having
\* processed each of the N cases exactly once in order, reading exactly
\* ceil(N/P) packed words, with the tail re-entry executed at most once and
\* processing N - P * (ceil(N/P) - 1) items.
C25_PassesReadCeilWords ==
    \A i \in DimensionalPasses :
        LET es == calls[i].before
            P == CallCombination(i).m_cItemsPerBitPackDataUnit
            V == GetVectorLengthFlatCore(es.m_cTargetStates)
            Trained(st) ==
                /\ IsPassOf(st, StateAfter(i).m_pTrainingSet)
                /\ WalkedOnce(st, st.pResidualError, es.m_pTrainingSet.m_cCases, P, V)
            Validated(st) ==
                /\ IsPassOf(st, StateAfter(i).m_pValidationSet)
                /\ WalkedOnce(st, IF es.m_bRegression THEN st.pResidualError
                                  ELSE st.pPredictionScores,
                              es.m_pValidationSet.m_cCases, P, V)
        IN /\ ~IsNull(es.m_pTrainingSet) => Trained(TrainingWalkOf(i))
           /\ ~IsNull(es.m_pValidationSet) => Validated(ValidationWalkOf(i))

\* passes over five cases at four items per word: two words, the tail
\* entered once for one item, and every residual moved by its own bin
C25_Witness ==
    \E i \in DimensionalPasses \cap ProbeApplies :
        /\ CallCombination(i).m_cItemsPerBitPackDataUnit = 4
        /\ calls[i].before.m_pTrainingSet.m_cCases = 5
        /\ TrainingWalkOf(i).cWordsRead = 2
        /\ TrainingWalkOf(i).cTailEntries = 1
        /\ TrainingWalkOf(i).cTailItems = 1
        /\ ValidationWalkOf(i).cWordsRead = 2
        /\ \A k \in 0..4 :
              BinTaken(calls[i].before.m_pTrainingSet, StateAfter(i).m_pTrainingSet, k)
                 = calls[1].arguments.trainingData[1, k]

(* ------------------------------------------------------------------ *)
(* C26                                                                 *)
(* ------------------------------------------------------------------ *)

\* the applies of a non-null update to a non-degenerate state
Updates ==
    { i \in Applies : calls[i].modelUpdateTensor # << >> /\ ~IsDegenerate(calls[i].before) }

\* call number i added its update, cell by cell, to the current model of
\* its combination and left the other current models as they were
AddsToCurrentModelOnly(i) ==
    LET c == calls[i].indexFeatureCombination
        apBefore == calls[i].before.m_apCurrentModel
        apAfter == StateAfter(i).m_apCurrentModel
    IN /\ Len(apAfter[c].m_aValues) = Len(apBefore[c].m_aValues)
       /\ \A k \in 1..Len(apBefore[c].m_aValues) :
             apAfter[c].m_aValues[k]
                = FAdd(apBefore[c].m_aValues[k], calls[i].modelUpdateTensor[k])
       /\ \A other \in 1..Len(apBefore) : other # c => apAfter[other] = apBefore[other]

\* C26: every apply_update with a non-null update U on a non-degenerate
\* state adds U element-wise to current_model[c] regardless of whether the
\* resulting validation metric improves, worsens or is NaN, and leaves
\* current_model[i] unchanged for every i # c.
C26_ApplyAddsToCurrentModelOnly == \A i \in Updates : AddsToCurrentModelOnly(i)

\* three applies of updates that are not zero: the first improved the
\* metric, the second made it worse, the third made it NaN
C26_Witness ==
    /\ Len(calls) = 3
    /\ Updates = { 1, 2, 3 }
    /\ \A i \in 1..3 : ~IsAllZero(calls[i].modelUpdateTensor)
    /\ 1 \in Lowering
    /\ MetricBelow(calls[1].validationMetricReturn, calls[2].validationMetricReturn)
    /\ IsNaN(calls[3].validationMetricReturn)
    /\ pEbmTrainingState.m_apCurrentModel # calls[3].before.m_apCurrentModel

(* ------------------------------------------------------------------ *)
(* C27                                                                 *)
(* ------------------------------------------------------------------ *)

\* the calls that ran the passes for a combination without dimensions
ZeroDimensionalPasses ==
    { i \in Passes : ~IsDegenerate(calls[i].before) /\ CallCombination(i).m_cFeatures = 0 }

\* pDataSetAfter is pDataSetBefore with the slice aSlice of the update taken
\* once into every case: subtracted from the residual in regression, added
\* to the case's scores in classification
SliceTakenByEveryCase(bRegression, aSlice, pDataSetBefore, pDataSetAfter) ==
    LET V == Len(aSlice)
    IN IF bRegression
       THEN \A k \in 1..pDataSetBefore.m_cCases :
               pDataSetAfter.m_aResidualErrors[k]
                  = ComputeRegressionResidualError(
                        FSub(pDataSetBefore.m_aResidualErrors[k], aSlice[1]))
       ELSE \A iCase \in 0..(pDataSetBefore.m_cCases - 1) : \A j \in 1..V :
               pDataSetAfter.m_aPredictionScores[iCase * V + j]
                  = FAdd(pDataSetBefore.m_aPredictionScores[iCase * V + j], aSlice[j])

\* the data set with other words in the input column of combination c
WithOtherColumn(pDataSet, c) ==
    [pDataSet EXCEPT !.m_aaInputData[c] = [k \in 1..pDataSet.m_cCases |-> 255]]

\* the passes of call number i gave every case the slice update[0..V) and
\* read no word of the combination's input column: the walks end with
\* their input pointers where they started, and give the arrays the call
\* left whatever the column holds
AppliesSliceWithoutColumn(i) ==
    LET es == calls[i].before
        c == calls[i].indexFeatureCombination
        U == calls[i].modelUpdateTensor
        aSlice == SubSeq(U, 1, GetVectorLengthFlatCore(es.m_cTargetStates))
        Unread(st, pDataSetAfter) ==
            /\ st.pInputData = 0
            /\ st.cWordsRead = 0
            /\ st.aResidualErrors = pDataSetAfter.m_aResidualErrors
            /\ st.aPredictionScores = pDataSetAfter.m_aPredictionScores
    IN /\ es.m_pTrainingSet.m_cCases # 0 =>
            /\ SliceTakenByEveryCase(es.m_bRegression, aSlice,
                                     es.m_pTrainingSet, StateAfter(i).m_pTrainingSet)
            /\ Unread(TrainingSetWalk(es.m_bRegression, es.m_cTargetStates, k_iZeroResidual,
                                      CallCombination(i), WithOtherColumn(es.m_pTrainingSet, c),
                                      c, U),
                      StateAfter(i).m_pTrainingSet)
       /\ es.m_pValidationSet.m_cCases # 0 =>
            /\ SliceTakenByEveryCase(es.m_bRegression, aSlice,
                                     es.m_pValidationSet, StateAfter(i).m_pValidationSet)
            /\ Unread(ValidationSetWalk(es.m_bRegression, es.m_cTargetStates,
                                        CallCombination(i), WithOtherColumn(es.m_pValidationSet, c),
                                        c, U),
                      StateAfter(i).m_pValidationSet)

\* C27: for a zero-dimensional combination, the training and validation
\* passes apply the same update slice update[0..V) to every case (every
\* case maps to bin 0) and never read the combination's bit-packed input
\* column.
C27_ZeroDimensionalPassesUseBinZero == \A i \in ZeroDimensionalPasses : AppliesSliceWithoutColumn(i)

\* a three-class state whose first call gave a slice of three values that
\* are not all the same to the cases of both data sets
C27_Witness ==
    /\ 1 \in ZeroDimensionalPasses
    /\ calls[1].before.m_cTargetStates = 3
    /\ calls[1].modelUpdateTensor[1] # calls[1].modelUpdateTensor[2]
    /\ 1 < calls[1].before.m_pTrainingSet.m_cCases
    /\ 1 < calls[1].before.m_pValidationSet.m_cCases
    /\ StateAfter(1).m_pTrainingSet.m_aPredictionScores
          # calls[1].before.m_pTrainingSet.m_aPredictionScores
    /\ StateAfter(1).m_pValidationSet.m_aPredictionScores
          # calls[1].before.m_pValidationSet.m_aPredictionScores

(* ------------------------------------------------------------------ *)
(* C28                                                                 *)
(* ------------------------------------------------------------------ *)

\* the data sets and the metric the passes of call number i compute from
\* the state the call found
PassesOf(i) ==
    LET es == calls[i].before
        c == calls[i].indexFeatureCombination
    IN [training |->
            IF es.m_pTrainingSet.m_cCases = 0 THEN es.m_pTrainingSet
            ELSE TrainingSetTargetFeatureLoop(es.m_bRegression, es.m_cTargetStates,
                     k_iZeroResidual, CallCombination(i), es.m_pTrainingSet, c,
                     calls[i].modelUpdateTensor),
        validation |->
            ValidationSetTargetFeatureLoop(es.m_bRegression, es.m_cTargetStates,
                CallCombination(i), es.m_pValidationSet, c, calls[i].modelUpdateTensor)]

\* call number i, whose commit stopped at a failing Copy, left everything
\* it had done: the update in current_model[c] and in both data sets, the
\* new metric in best_metric, the new tensors in the best models before the
\* failing one, the failing and the later ones as they were
NothingRolledBack(i) ==
    LET es == calls[i].before
        after == StateAfter(i)
        iFailing == calls[i].iCopyFailure
        passes == PassesOf(i)
    IN /\ calls[i].ret = 1
       /\ AddsToCurrentModelOnly(i)
       /\ after.m_pTrainingSet = passes.training
       /\ after.m_pValidationSet = passes.validation.set
       /\ after.m_bestModelMetric = passes.validation.metric
       /\ MetricBelow(after.m_bestModelMetric, es.m_bestModelMetric)
       /\ \A k \in 1..Len(es.m_apBestModel) :
             after.m_apBestModel[k]
                = IF k < iFailing THEN after.m_apCurrentModel[k] ELSE es.m_apBestModel[k]

\* C28: when apply_update fails because a best-model copy fails part-way
\* through the commit, nothing is rolled back: current_model[c], training
\* and validation scores/residuals already contain the update, best_metric
\* has already been lowered to the new metric, and best_model tensors before
\* the failing index hold the new snapshot while the failing and later ones
\* do not, so best_metric no longer corresponds to the stored best_model.
C28_FailedCommitKeepsEverything == \A i \in CommitsWithCopyFailure : NothingRolledBack(i)

\* a commit that failed at its second Copy after the first had stored a
\* new tensor, the failing one keeping values that differ from the current
\* model's: best_metric is the metric of a model best_model does not hold
C28_Witness ==
    \E i \in CommitsWithCopyFailure :
        /\ calls[i].iCopyFailure = 2
        /\ StateAfter(i).m_apBestModel[1] # calls[i].before.m_apBestModel[1]
        /\ StateAfter(i).m_apBestModel[1] = StateAfter(i).m_apCurrentModel[1]
        /\ StateAfter(i).m_apBestModel[2] # StateAfter(i).m_apCurrentModel[2]
        /\ StateAfter(i).m_pTrainingSet # calls[i].before.m_pTrainingSet
        /\ StateAfter(i).m_pValidationSet # calls[i].before.m_pValidationSet

(* ------------------------------------------------------------------ *)
(* C29                                                                 *)
(* ------------------------------------------------------------------ *)

\* the applies of a null update tensor
NullApplies == { i \in Applies : calls[i].modelUpdateTensor = << >> }

\* C29: apply_update called with a null update tensor returns status 0 with
\* validation_metric_out = 0 and changes nothing in the training state
\* (current and best models, best_metric, scores and residuals), even when
\* a validation set exists.
C29_NullUpdateChangesNothing ==
    \A i \in NullApplies :
        /\ calls[i].ret = 0
        /\ calls[i].validationMetricReturn = Num(0)
        /\ StateAfter(i).m_apCurrentModel = calls[i].before.m_apCurrentModel
        /\ StateAfter(i).m_apBestModel = calls[i].before.m_apBestModel
        /\ StateAfter(i).m_bestModelMetric = calls[i].before.m_bestModelMetric
        /\ StateAfter(i).m_pTrainingSet = calls[i].before.m_pTrainingSet
        /\ StateAfter(i).m_pValidationSet = calls[i].before.m_pValidationSet

\* a null apply on a fresh state with a validation set, whose best_metric
\* any computed metric would lower, and a second one after an apply that
\* reported a metric other than 0
C29_Witness ==
    /\ Len(calls) = 3
    /\ NullApplies = { 1, 3 }
    /\ calls[1].before.m_pValidationSet.m_cCases # 0
    /\ calls[1].before.m_bestModelMetric.k = "inf"
    /\ 2 \in Lowering
    /\ calls[2].validationMetricReturn # Num(0)
    /\ ~IsAllZero(calls[3].before.m_apCurrentModel[calls[3].indexFeatureCombination].m_aValues)

(* ------------------------------------------------------------------ *)
(* C30                                                                 *)
(* ------------------------------------------------------------------ *)

\* the state es with the two scratch update tensors of the state scratch
WithScratchOf(es, scratch) ==
    [es EXCEPT !.m_pSmallChangeToModelAccumulatedFromSamplingSets =
                   scratch.m_pSmallChangeToModelAccumulatedFromSamplingSets,
               !.m_pSmallChangeToModelOverwriteSingleSamplingSet =
                   scratch.m_pSmallChangeToModelOverwriteSingleSamplingSet]

\* call number i left the models, best_metric and both data sets as they
\* were, and changed nothing of the state but the two scratch tensors
WritesScratchOnly(i) ==
    /\ StateAfter(i).m_apCurrentModel = calls[i].before.m_apCurrentModel
    /\ StateAfter(i).m_apBestModel = calls[i].before.m_apBestModel
    /\ StateAfter(i).m_bestModelMetric = calls[i].before.m_bestModelMetric
    /\ StateAfter(i).m_pTrainingSet = calls[i].before.m_pTrainingSet
    /\ StateAfter(i).m_pValidationSet = calls[i].before.m_pValidationSet
    /\ StateAfter(i) = WithScratchOf(calls[i].before, StateAfter(i))

\* C30: generate_update, whether it succeeds or fails, modifies only the
\* two scratch update tensors: current_model, best_model, best_metric and
\* all training and validation scores and residuals are the same after the
\* call as before it.
C30_GenerateWritesScratchOnly == \A i \in Generates : WritesScratchOnly(i)

\* a generate that failed on a non-degenerate state after rewriting a
\* scratch tensor, followed by one that returned an update that is not zero
C30_Witness ==
    /\ Generates = { 1, 2 }
    /\ ~IsDegenerate(calls[1].before)
    /\ calls[1].modelUpdateTensor = << >>
    /\ StateAfter(1) # calls[1].before
    /\ 2 \in Generated
    /\ ~IsAllZero(calls[2].modelUpdateTensor)
    /\ StateAfter(2) # calls[2].before

====
